---- MODULE Spec2Model ----
(***************************************************************************)
(* Visual Plot Editor (plotEditor.js / script.js): the scene store, the    *)
(* command-based undo/redo engine and the drag interaction of PlotEditor,  *)
(* as a state machine with one action per event handler.                   *)
(*                                                                         *)
(* JavaScript objects are references: plot_objects, the selection, the     *)
(* drag session and every command hold references into one heap (objs).    *)
(* An object's id is a field of the object, distinct from its reference:   *)
(* loadPlotData creates new objects that carry ids read from a file.       *)
(***************************************************************************)
EXTENDS Integers, Sequences, FiniteSets, TLC

\* ------------------------------------------------------------------ bounds
\* Objects ever allocated (by the add* methods and by loadPlotData).
MaxObjects == 2
\* Commands ever created (by executeCommand callers and by stopDragging).
MaxCommands == 3
\* Plot coordinates range over 0..MaxCoord on both axes.
MaxCoord == 1
\* Objects in a plot file given to loadPlotData.
MaxFileObjects == 1
\* this.max_history_size (50 in the constructor), scaled down so that the
\* eviction branch of executeCommand / stopDragging is reached.
max_history_size == 2
\* Last pixel of the picking raster.
MaxPixel == 2
\* Radius of a picking shape, and what its hit region adds to it (3 pixels
\* in the source), in pixels of the modelled raster.
PickRadius == 0
PickInflation == 1
\* Largest width and height of the plot area.
MaxPlotSize == 4
\* Commands created while the picking raster is followed.
MaxRasterCommands == 1
\* this.canvas_padding
canvas_padding == 60

\* JavaScript null for object references (references are 1..MaxObjects).
NoObject == 0

Refs == 1..MaxObjects
Coords == 0..MaxCoord
\* Pointer positions in plot space (the result of canvasToPlot on the event).
Positions == {[x |-> i, y |-> MaxCoord - i] : i \in Coords}
\* Values the properties panel can give to z_index.
ZValues == {0, 1}
Tools == {"select", "point", "line"}

VARIABLES
    objs,                  \* heap: reference -> object fields
    next_ref,              \* next unallocated reference
    plot_objects,          \* this.plot_objects: sequence of references
    selected_object,       \* this.selected_object: reference or NoObject
    current_tool,          \* this.current_tool
    drawing_state,         \* this.drawing_state
    dragging_state,        \* this.dragging_state
    command_history,       \* this.command_history
    current_command_index, \* this.current_command_index (0-based, -1 if none)
    next_serial,           \* identity (serial) of the next command created
    base,                  \* history variable, see InSequence
    id_color_map,          \* this.id_color_map: object id -> picking colour
    object_color_map,      \* this.object_color_map: picking colour -> object id
    next_color_id,         \* this.next_color_id
    picking_canvas,        \* the pixels of this.picking_canvas
    pointer_up,            \* history variable, see ReleaseOutcome
    plot_bounds,           \* this.plot_bounds
    aspect_ratio,          \* this.axes_properties.aspect_ratio
    plot_width,            \* this.plot_width
    plot_height,           \* this.plot_height
    plot_coords,           \* the plot point last converted from or to
    canvas_coords,         \* the device point last converted from or to
    brace,                 \* the brace being drawn
    path                   \* the canvas path the brace is drawn into

vars == <<objs, next_ref, plot_objects, selected_object, current_tool,
          drawing_state, dragging_state, command_history,
          current_command_index, next_serial, base>>

\* The picking-colour registry.
colorVars == <<id_color_map, object_color_map, next_color_id>>

\* The settings of the coordinate transforms and the points converted.
transformVars ==
    <<plot_bounds, aspect_ratio, plot_width, plot_height, plot_coords, canvas_coords>>

\* The brace drawing.
drawVars == <<brace, path>>

\* What the editing handlers of Next leave alone.
restVars == <<colorVars, picking_canvas, transformVars, drawVars>>

\* A colour, `rgb(r,g,b)` in the source.
Rgb(r, g, b) == [r |-> r, g |-> g, b |-> b]

\* The picking raster is modelled as a strip of pixels 0..MaxPixel.
Pixels == 0..MaxPixel

\* The raster after clearRect: transparent black, read back as rgb(0,0,0).
ClearedCanvas == [p \in Pixels |-> Rgb(0, 0, 0)]

\* --------------------------------------------------------------- numbers
\* The coordinate arithmetic is done on exact fractions n/d, d > 0, in
\* lowest terms: JavaScript's numbers without their rounding.
RECURSIVE Gcd(_, _)
Gcd(a, b) == IF b = 0 THEN a ELSE Gcd(b, a % b)

Abs(n) == IF n < 0 THEN -n ELSE n

Fraction(n, d) ==
    LET g == Gcd(Abs(n), Abs(d))
        s == IF d < 0 THEN -1 ELSE 1
    IN  [n |-> s * (n \div g), d |-> s * (d \div g)]

Num(n) == [n |-> n, d |-> 1]

Plus(a, b) == Fraction(a.n * b.d + b.n * a.d, a.d * b.d)

Minus(a, b) == Fraction(a.n * b.d - b.n * a.d, a.d * b.d)

Times(a, b) == Fraction(a.n * b.n, a.d * b.d)

\* a / b for b other than zero.
Over(a, b) == Fraction(a.n * b.d, a.d * b.n)

Greater(a, b) == a.n * b.d > b.n * a.d

\* ------------------------------------------------------------- sequences
Last(s) == s[Len(s)]

\* Array.prototype.slice(0, n) for 0 <= n.
Slice0(s, n) == SubSeq(s, 1, IF n < Len(s) THEN n ELSE Len(s))

\* The start index Array.prototype.splice really uses: a negative start
\* counts from the end, and the result is clamped to 0..length.
SpliceStart(s, start) ==
    IF start < 0
    THEN (IF Len(s) + start < 0 THEN 0 ELSE Len(s) + start)
    ELSE (IF start > Len(s) THEN Len(s) ELSE start)

\* s.splice(start, 1)
SpliceRemove(s, start) ==
    LET k == SpliceStart(s, start)
    IN  IF k < Len(s)
        THEN SubSeq(s, 1, k) \o SubSeq(s, k + 2, Len(s))
        ELSE s

\* s.splice(start, 0, e)
SpliceInsert(s, start, e) ==
    LET k == SpliceStart(s, start)
    IN  SubSeq(s, 1, k) \o <<e>> \o SubSeq(s, k + 1, Len(s))

\* s.findIndex(obj => obj.id === id): 0-based, -1 when there is none.
FindIndexById(O, s, id) ==
    IF \E i \in 1..Len(s) : O[s[i]].id = id
    THEN (CHOOSE i \in 1..Len(s) :
              /\ O[s[i]].id = id
              /\ \A j \in 1..(i - 1) : O[s[j]].id # id) - 1
    ELSE -1

\* ---------------------------------------------------------------- objects
Unallocated == [type |-> "none"]

\* addPoint's object (the style fields other than z_index are never read by
\* the operations modelled here). generateId() gives an id no other object
\* created in the session has: the new object's reference number stands
\* for it.
NewPoint(r, p) ==
    [type |-> "point", id |-> r, x |-> p.x, y |-> p.y, z_index |-> 0]

\* addLine's object.
NewLine(r, p, q) ==
    [type |-> "line", id |-> r, x1 |-> p.x, y1 |-> p.y,
     x2 |-> q.x, y2 |-> q.y, z_index |-> 0]

\* JavaScript null where a coordinate bundle or a position is expected.
NoCoords == [null |-> TRUE]

getObjectCoordinates(o) ==
    IF o.type \in {"point", "text"}
    THEN [x |-> o.x, y |-> o.y]
    ELSE IF o.type \in {"line", "area", "brace"}
    THEN [x1 |-> o.x1, y1 |-> o.y1, x2 |-> o.x2, y2 |-> o.y2]
    ELSE [empty |-> TRUE]

setObjectCoordinates(o, c) ==
    IF o.type \in {"point", "text"}
    THEN [o EXCEPT !.x = c.x, !.y = c.y]
    ELSE IF o.type \in {"line", "area", "brace"}
    THEN [o EXCEPT !.x1 = c.x1, !.y1 = c.y1, !.x2 = c.x2, !.y2 = c.y2]
    ELSE o

\* updateObjectCoordinates that adds the offset to the coordinates the
\* object has, not to the snapshot.
updateObjectCoordinatesAccumulating(o, original, dx, dy) ==
    IF o.type \in {"point", "text"}
    THEN [o EXCEPT !.x = o.x + dx, !.y = o.y + dy]
    ELSE IF o.type \in {"line", "area", "brace"}
    THEN [o EXCEPT !.x1 = o.x1 + dx, !.y1 = o.y1 + dy,
                   !.x2 = o.x2 + dx, !.y2 = o.y2 + dy]
    ELSE o

\* updateObjectCoordinates(obj, dx, dy): the snapshot plus the offset.
updateObjectCoordinates(o, original, dx, dy) ==
    IF o.type \in {"point", "text"}
    THEN [o EXCEPT !.x = original.x + dx, !.y = original.y + dy]
    ELSE IF o.type \in {"line", "area", "brace"}
    THEN [o EXCEPT !.x1 = original.x1 + dx, !.y1 = original.y1 + dy,
                   !.x2 = original.x2 + dx, !.y2 = original.y2 + dy]
    ELSE o

\* The object lies in the modelled part of the plane (pointer moves that
\* would carry it outside are not tried).
InRange(o) ==
    IF o.type \in {"point", "text"}
    THEN o.x \in Coords /\ o.y \in Coords
    ELSE IF o.type \in {"line", "area", "brace"}
    THEN o.x1 \in Coords /\ o.y1 \in Coords /\ o.x2 \in Coords /\ o.y2 \in Coords
    ELSE TRUE

\* ------------------------------------------------------------------ scene
\* What a command's effect reads and writes of the editor.
Scene == [objs |-> objs, list |-> plot_objects, sel |-> selected_object]

\* --------------------------------------------------------------- commands
\* AddObjectCommand.execute
AddExecute(c, S) ==
    [S EXCEPT !.list = Append(S.list, c.object), !.sel = c.object]

\* Faulty variants of command effects, which the properties below must
\* reject: an undo of Add that leaves the object in the list, a Delete that
\* leaves its object selected, an undo of Delete that leaves the selection
\* alone, an undo of Move that moves nothing.
AddUndoKeepingObject(c, S) == [S EXCEPT !.sel = NoObject]

DeleteExecuteKeepingSelection(c, S) ==
    IF c.object_index # -1
    THEN [S EXCEPT !.list = SpliceRemove(S.list, c.object_index)]
    ELSE S

DeleteUndoKeepingSelection(c, S) ==
    [S EXCEPT !.list =
        IF c.object_index < 0
        THEN Append(S.list, c.object)
        ELSE SubSeq(S.list, 1, c.object_index) \o <<c.object>>
                \o SubSeq(S.list, c.object_index + 1, Len(S.list))]

MoveUndoKeepingCoordinates(c, S) == S

\* AddObjectCommand.undo
AddUndo(c, S) ==
    LET index == FindIndexById(S.objs, S.list, S.objs[c.object].id)
    IN  IF index # -1
        THEN [S EXCEPT !.list = SpliceRemove(S.list, index), !.sel = NoObject]
        ELSE S

\* new DeleteObjectCommand(editor, object): the index is looked up by id.
NewDelete(S, r, n) ==
    [kind |-> "Delete", n |-> n, object |-> r,
     object_index |-> FindIndexById(S.objs, S.list, S.objs[r].id)]

\* DeleteObjectCommand.execute
DeleteExecute(c, S) ==
    IF c.object_index # -1
    THEN [S EXCEPT !.list = SpliceRemove(S.list, c.object_index),
                   !.sel = NoObject]
    ELSE S

\* DeleteObjectCommand.undo
DeleteUndo(c, S) ==
    [S EXCEPT !.list = SpliceInsert(S.list, c.object_index, c.object),
              !.sel = c.object]

\* ModifyObjectCommand.execute
ModifyExecute(c, S) ==
    [S EXCEPT !.objs[c.object][c.property] = c.new_value]

\* ModifyObjectCommand.undo
ModifyUndo(c, S) ==
    [S EXCEPT !.objs[c.object][c.property] = c.old_value]

\* MoveObjectCommand.execute
MoveExecute(c, S) ==
    [S EXCEPT !.objs[c.object] = setObjectCoordinates(@, c.new_coords)]

\* MoveObjectCommand.undo
MoveUndo(c, S) ==
    [S EXCEPT !.objs[c.object] = setObjectCoordinates(@, c.old_coords)]

\* new ClearPlotCommand(editor)
NewClear(S, n) ==
    [kind |-> "Clear", n |-> n, saved_objects |-> S.list,
     saved_selection |-> S.sel]

\* ClearPlotCommand.execute
ClearExecute(c, S) ==
    [S EXCEPT !.list = <<>>, !.sel = NoObject]

\* An undo of Clear that puts the saved objects after those in the list.
ClearUndoAppending(c, S) ==
    [S EXCEPT !.list = S.list \o c.saved_objects, !.sel = c.saved_selection]

\* ClearPlotCommand.undo
ClearUndo(c, S) ==
    [S EXCEPT !.list = c.saved_objects, !.sel = c.saved_selection]

\* command.execute(), by the command's class.
Execute(c, S) ==
    CASE c.kind = "Add"    -> AddExecute(c, S)
      [] c.kind = "Delete" -> DeleteExecute(c, S)
      [] c.kind = "Modify" -> ModifyExecute(c, S)
      [] c.kind = "Move"   -> MoveExecute(c, S)
      [] c.kind = "Clear"  -> ClearExecute(c, S)

\* command.undo(), by the command's class.
UndoEffect(c, S) ==
    CASE c.kind = "Add"    -> AddUndo(c, S)
      [] c.kind = "Delete" -> DeleteUndo(c, S)
      [] c.kind = "Modify" -> ModifyUndo(c, S)
      [] c.kind = "Move"   -> MoveUndo(c, S)
      [] c.kind = "Clear"  -> ClearUndo(c, S)

\* ---------------------------------------------------------------- history
\* Faulty variants of the bookkeeping, which the properties below must reject.
\* Eviction that leaves the cursor where the push put it.
HistoryEvictKeepingCursor(h, idx, c) ==
    LET pushed == Append(Slice0(h, idx + 1), c)
    IN  IF Len(pushed) > max_history_size
        THEN [history |-> Tail(pushed), index |-> idx + 1]
        ELSE [history |-> pushed, index |-> idx + 1]

\* A push that keeps the commands after the cursor.
HistoryKeepingRedoBranch(h, idx, c) ==
    LET pushed == Append(h, c)
    IN  IF Len(pushed) > max_history_size
        THEN [history |-> Tail(pushed), index |-> (idx + 1) - 1]
        ELSE [history |-> pushed, index |-> idx + 1]

\* A drag commit that appends after the redo branch instead of replacing it.
HistoryRecordAfterRedoBranch(h, idx, c) ==
    LET pushed == Append(h, c)
    IN  IF Len(pushed) > max_history_size
        THEN [history |-> Tail(pushed), index |-> Len(pushed) - 2]
        ELSE [history |-> pushed, index |-> Len(pushed) - 1]

\* A push that never evicts.
HistoryWithoutEviction(h, idx, c) ==
    [history |-> Append(Slice0(h, idx + 1), c), index |-> idx + 1]

\* executeCommand's bookkeeping: drop what follows the cursor, push, advance
\* the cursor, and evict the oldest entry past max_history_size.
HistoryAfterExecute(h, idx, c) ==
    LET pushed == Append(Slice0(h, idx + 1), c)
    IN  IF Len(pushed) > max_history_size
        THEN [history |-> Tail(pushed), index |-> (idx + 1) - 1]
        ELSE [history |-> pushed, index |-> idx + 1]

\* stopDragging's own copy of the same bookkeeping.
HistoryAfterRecord(h, idx, c) ==
    LET pushed == Append(Slice0(h, idx + 1), c)
    IN  IF Len(pushed) > max_history_size
        THEN [history |-> Tail(pushed), index |-> (idx + 1) - 1]
        ELSE [history |-> pushed, index |-> idx + 1]

\* -------------------------------------------------------- history variable
\* The object list as undo/redo must reproduce it: membership, order and
\* every field value.
Snapshot(S) ==
    [list |-> S.list, vals |-> [i \in 1..Len(S.list) |-> S.objs[S.list[i]]]]

IsDragging == dragging_state.is_dragging

\* base is the cursor value at which the current plain run of commands
\* began: the history entries above it were appended (by executeCommand or
\* by a drag commit) and undone / redone with nothing else changing the
\* scene in between. Loading a plot, and a command operation or a second
\* pointer-down in the middle of a drag, end the run: base moves to the top.
\* Indices are 0-based, as current_command_index is.
InSequence(i) == i > base

\* base after an append at cursor idx that left the history h.
BaseAfterAppend(idx, evicted) ==
    LET b == IF base < idx THEN base ELSE idx
    IN  IF evicted /\ b > -1 THEN b - 1 ELSE b

\* base after undo / redo: unchanged, unless a drag is under way.
BaseAfterTraversal ==
    IF IsDragging THEN Len(command_history) - 1 ELSE base

\* ------------------------------------------------------------------- Init
NoDrag ==
    [is_dragging |-> FALSE, dragged_object |-> NoObject,
     drag_start_mouse |-> NoCoords, drag_start_coords |-> NoCoords,
     original_coords |-> NoCoords]

\* The settings at construction. The size of the plot area is the size of
\* the page's canvas element less the padding.
InitSettings ==
    /\ plot_bounds = [x_min |-> -10, x_max |-> 10, y_min |-> -10, y_max |-> 10]
    /\ aspect_ratio = Num(1)
    /\ plot_width = MaxPlotSize
    /\ plot_height = MaxPlotSize
    /\ plot_coords = NoCoords
    /\ canvas_coords = NoCoords

\* No brace is being drawn.
InitDrawing ==
    /\ brace = NoCoords
    /\ path = <<>>

InitEditor ==
    /\ objs = [r \in Refs |-> Unallocated]
    /\ next_ref = 1
    /\ plot_objects = <<>>
    /\ selected_object = NoObject
    /\ current_tool = "select"
    /\ drawing_state = [is_drawing |-> FALSE, start_point |-> NoCoords]
    /\ dragging_state = NoDrag
    /\ command_history = <<>>
    /\ current_command_index = -1
    /\ next_serial = 1
    /\ base = -1
    /\ id_color_map = <<>>
    /\ object_color_map = <<>>
    /\ next_color_id = 1
    /\ picking_canvas = ClearedCanvas
    /\ pointer_up = "none"

Init == InitEditor /\ InitSettings /\ InitDrawing

\* ------------------------------------------------------- the command engine
\* A command of the base class: its execute() throws.
Throws(c) == c.kind = "Command"

\* executeCommand(command), called on the scene S0 its caller prepared.
\* The history is sliced before command.execute() is called: when execute()
\* throws, the exception leaves executeCommand with the slice done and
\* nothing else.
executeCommand(c, S0) ==
    LET S1 == Execute(c, S0)
        H  == HistoryAfterExecute(command_history, current_command_index, c)
    IN  IF Throws(c)
        THEN /\ command_history' =
                    Slice0(command_history, current_command_index + 1)
             /\ next_serial' = next_serial + 1
             /\ base' = IF base < current_command_index THEN base
                        ELSE current_command_index
             /\ UNCHANGED <<objs, plot_objects, selected_object,
                            current_command_index>>
        ELSE /\ objs' = S1.objs
             /\ plot_objects' = S1.list
             /\ selected_object' = S1.sel
             /\ command_history' = H.history
             /\ current_command_index' = H.index
             /\ next_serial' = next_serial + 1
             /\ base' = IF IsDragging
                        THEN Len(H.history) - 1
                        ELSE BaseAfterAppend(current_command_index,
                                             H.index = current_command_index)

\* redo() that, with nothing to redo, runs the last command again.
RedoRepeatingLast ==
    /\ IF current_command_index < Len(command_history) - 1
       THEN LET c  == command_history[current_command_index + 2]
                S1 == Execute(c, Scene)
            IN  /\ objs' = S1.objs
                /\ plot_objects' = S1.list
                /\ selected_object' = S1.sel
                /\ current_command_index' = current_command_index + 1
                /\ base' = BaseAfterTraversal
       ELSE IF command_history # <<>>
       THEN LET S1 == Execute(Last(command_history), Scene)
            IN  /\ objs' = S1.objs
                /\ plot_objects' = S1.list
                /\ selected_object' = S1.sel
                /\ UNCHANGED <<current_command_index, base>>
       ELSE UNCHANGED <<objs, plot_objects, selected_object,
                        current_command_index, base>>
    /\ UNCHANGED <<next_ref, current_tool, drawing_state, dragging_state,
                   command_history, next_serial>>

\* undo()
Undo ==
    /\ IF current_command_index >= 0
       THEN LET c  == command_history[current_command_index + 1]
                S1 == UndoEffect(c, Scene)
            IN  /\ objs' = S1.objs
                /\ plot_objects' = S1.list
                /\ selected_object' = S1.sel
                /\ current_command_index' = current_command_index - 1
                /\ base' = BaseAfterTraversal
       ELSE UNCHANGED <<objs, plot_objects, selected_object,
                        current_command_index, base>>
    /\ UNCHANGED <<next_ref, current_tool, drawing_state, dragging_state,
                   command_history, next_serial>>

\* redo()
Redo ==
    /\ IF current_command_index < Len(command_history) - 1
       THEN LET c  == command_history[current_command_index + 2]
                S1 == Execute(c, Scene)
            IN  /\ objs' = S1.objs
                /\ plot_objects' = S1.list
                /\ selected_object' = S1.sel
                /\ current_command_index' = current_command_index + 1
                /\ base' = BaseAfterTraversal
       ELSE UNCHANGED <<objs, plot_objects, selected_object,
                        current_command_index, base>>
    /\ UNCHANGED <<next_ref, current_tool, drawing_state, dragging_state,
                   command_history, next_serial>>

\* ----------------------------------------------------------- adding objects
CanAllocate == next_ref <= MaxObjects
CanRecord == next_serial <= MaxCommands

\* addPoint / addLine: build the object, then
\* executeCommand(new AddObjectCommand(this, object)).
addObject(o) ==
    /\ CanAllocate /\ CanRecord
    /\ executeCommand([kind |-> "Add", n |-> next_serial, object |-> next_ref],
                      [Scene EXCEPT !.objs[next_ref] = o])
    /\ next_ref' = next_ref + 1

\* handleClick
HandleClick(pos) ==
    /\ current_tool = "point"
    /\ addObject(NewPoint(next_ref, pos))
    /\ UNCHANGED <<current_tool, drawing_state, dragging_state>>

\* ------------------------------------------------------------------ picking
\* getObjectAt / selectObjectById resolve an id with
\* plot_objects.find(obj => obj.id === id): the first object carrying it.
Pickable ==
    {plot_objects[i] : i \in
        {j \in 1..Len(plot_objects) :
            \A k \in 1..(j - 1) :
                objs[plot_objects[k]].id # objs[plot_objects[j]].id}}

\* The pointer positions at which the picking raster can show an object's
\* colour: where renderPickingCanvas paints it (a point's disc, a line's
\* band from one endpoint to the other). Which of several objects painted
\* at one position is on top is left open here.
Footprint(o) ==
    IF o.type \in {"point", "text"}
    THEN {[x |-> o.x, y |-> o.y]}
    ELSE {[x |-> o.x1, y |-> o.y1], [x |-> o.x2, y |-> o.y2]}

\* selectObjectById(object_id), from a click on the object list.
SelectObjectById(r) ==
    /\ r \in Pickable
    /\ selected_object' = r
    /\ UNCHANGED <<objs, next_ref, plot_objects, current_tool, drawing_state,
                   dragging_state, command_history, current_command_index,
                   next_serial, base>>

\* setTool(tool). The code clears is_drawing and leaves start_point as it
\* is; start_point is read only while is_drawing (updateDrawing,
\* completeDrawing), so the model keeps its value only then.
SetTool(t) ==
    /\ current_tool' = t
    /\ drawing_state' = [is_drawing |-> FALSE, start_point |-> NoCoords]
    /\ selected_object' = NoObject
    /\ UNCHANGED <<objs, next_ref, plot_objects, dragging_state,
                   command_history, current_command_index, next_serial,
                   base>>

\* ----------------------------------------------------------------- dragging
\* startDragging(obj, mouse_coords, plot_coords)
startDragging(r, pos) ==
    [is_dragging |-> TRUE, dragged_object |-> r, drag_start_mouse |-> pos,
     drag_start_coords |-> pos,
     original_coords |-> getObjectCoordinates(objs[r])]

\* handleMouseDown
HandleMouseDown(pos, clicked) ==
    /\ \/ /\ current_tool = "select"
          /\ clicked \in Pickable
          /\ pos \in Footprint(objs[clicked])
          /\ selected_object' = clicked
          /\ dragging_state' = startDragging(clicked, pos)
          /\ base' = BaseAfterTraversal
          /\ UNCHANGED drawing_state
       \/ /\ current_tool = "select"
          /\ clicked = NoObject
          /\ selected_object' = NoObject
          /\ UNCHANGED <<dragging_state, drawing_state, base>>
       \/ /\ current_tool = "line"
          /\ clicked = NoObject
          /\ drawing_state' = [is_drawing |-> TRUE, start_point |-> pos]
          /\ UNCHANGED <<selected_object, dragging_state, base>>
    /\ UNCHANGED <<objs, next_ref, plot_objects, current_tool,
                   command_history, current_command_index, next_serial>>

\* A pointer-move that records each step of the drag as a Move command.
HandleMouseMoveRecording(pos) ==
    /\ IsDragging
    /\ dragging_state.dragged_object # NoObject
    /\ CanRecord
    /\ LET r  == dragging_state.dragged_object
           dx == pos.x - dragging_state.drag_start_coords.x
           dy == pos.y - dragging_state.drag_start_coords.y
           o  == updateObjectCoordinates(objs[r],
                     dragging_state.original_coords, dx, dy)
       IN  /\ InRange(o)
           /\ executeCommand([kind |-> "Move", n |-> next_serial, object |-> r,
                              old_coords |-> getObjectCoordinates(objs[r]),
                              new_coords |-> getObjectCoordinates(o)], Scene)
    /\ UNCHANGED <<next_ref, current_tool, drawing_state, dragging_state>>

\* handleMouseMove while a drag session is active: updateDragging.
HandleMouseMove(pos) ==
    /\ IsDragging
    /\ dragging_state.dragged_object # NoObject
    /\ LET r  == dragging_state.dragged_object
           dx == pos.x - dragging_state.drag_start_coords.x
           dy == pos.y - dragging_state.drag_start_coords.y
           o  == updateObjectCoordinates(objs[r],
                     dragging_state.original_coords, dx, dy)
       IN  /\ InRange(o)
           /\ objs' = [objs EXCEPT ![r] = o]
    /\ UNCHANGED <<next_ref, plot_objects, selected_object, current_tool,
                   drawing_state, dragging_state, command_history,
                   current_command_index, next_serial, base>>

\* stopDragging without the test that the object moved.
stopDraggingAlwaysRecording ==
    LET r       == dragging_state.dragged_object
        current == getObjectCoordinates(objs[r])
        moved   == TRUE
        c       == [kind |-> "Move", n |-> next_serial, object |-> r,
                    old_coords |-> dragging_state.original_coords,
                    new_coords |-> current]
        H       == HistoryAfterRecord(command_history, current_command_index, c)
    IN  /\ IF IsDragging /\ r # NoObject
              /\ dragging_state.original_coords # NoCoords /\ moved
           THEN /\ CanRecord
                /\ command_history' = H.history
                /\ current_command_index' = H.index
                /\ next_serial' = next_serial + 1
                /\ base' = BaseAfterAppend(current_command_index,
                                           H.index = current_command_index)
           ELSE UNCHANGED <<command_history, current_command_index,
                            next_serial, base>>
        /\ dragging_state' = NoDrag

\* stopDragging that clears only is_dragging when nothing is recorded.
stopDraggingKeepingSession ==
    LET r       == dragging_state.dragged_object
        current == getObjectCoordinates(objs[r])
        moved   == dragging_state.original_coords # current
        c       == [kind |-> "Move", n |-> next_serial, object |-> r,
                    old_coords |-> dragging_state.original_coords,
                    new_coords |-> current]
        H       == HistoryAfterRecord(command_history, current_command_index, c)
    IN  /\ IF IsDragging /\ r # NoObject
              /\ dragging_state.original_coords # NoCoords /\ moved
           THEN /\ CanRecord
                /\ command_history' = H.history
                /\ current_command_index' = H.index
                /\ next_serial' = next_serial + 1
                /\ base' = BaseAfterAppend(current_command_index,
                                           H.index = current_command_index)
           ELSE UNCHANGED <<command_history, current_command_index,
                            next_serial, base>>
        /\ dragging_state' = IF moved THEN NoDrag
                           ELSE [dragging_state EXCEPT !.is_dragging = FALSE]

\* stopDragging()
stopDragging ==
    LET r       == dragging_state.dragged_object
        current == getObjectCoordinates(objs[r])
        moved   == dragging_state.original_coords # current
        c       == [kind |-> "Move", n |-> next_serial, object |-> r,
                    old_coords |-> dragging_state.original_coords,
                    new_coords |-> current]
        H       == HistoryAfterRecord(command_history, current_command_index, c)
    IN  /\ IF IsDragging /\ r # NoObject
              /\ dragging_state.original_coords # NoCoords /\ moved
           THEN /\ CanRecord
                /\ command_history' = H.history
                /\ current_command_index' = H.index
                /\ next_serial' = next_serial + 1
                /\ base' = BaseAfterAppend(current_command_index,
                                           H.index = current_command_index)
           ELSE UNCHANGED <<command_history, current_command_index,
                            next_serial, base>>
        /\ dragging_state' = NoDrag

\* handleMouseUp
HandleMouseUp(pos) ==
    \/ /\ IsDragging
       /\ stopDragging
       /\ UNCHANGED <<objs, next_ref, plot_objects, selected_object,
                      current_tool, drawing_state>>
    \/ /\ ~IsDragging
       /\ drawing_state.is_drawing
       /\ current_tool = "line"
       /\ addObject(NewLine(next_ref, drawing_state.start_point, pos))
       /\ drawing_state' = [is_drawing |-> FALSE, start_point |-> NoCoords]
       /\ UNCHANGED <<current_tool, dragging_state>>

\* ------------------------------------------------------ editing the scene
\* clearPlot()
ClearPlot ==
    /\ Len(plot_objects) > 0
    /\ CanRecord
    /\ executeCommand(NewClear(Scene, next_serial), Scene)
    /\ UNCHANGED <<next_ref, current_tool, drawing_state, dragging_state>>

\* deleteSelectedObject()
DeleteSelectedObject ==
    /\ selected_object # NoObject
    /\ CanRecord
    /\ executeCommand(NewDelete(Scene, selected_object, next_serial), Scene)
    /\ UNCHANGED <<next_ref, current_tool, drawing_state, dragging_state>>

\* updateObjectProperty's two tests: an object is selected, and the value
\* differs from the one the object has (old_value !== value).
PropertyChanges(property, value) ==
    /\ selected_object # NoObject
    /\ objs[selected_object][property] # value

\* updateObjectProperty without the test that the value differs.
UpdateObjectPropertyAlwaysRecording(property, value) ==
    IF selected_object # NoObject
    THEN /\ CanRecord
         /\ executeCommand([kind |-> "Modify", n |-> next_serial,
                            object |-> selected_object, property |-> property,
                            old_value |-> objs[selected_object][property],
                            new_value |-> value], Scene)
         /\ UNCHANGED <<next_ref, current_tool, drawing_state, dragging_state>>
    ELSE UNCHANGED vars

\* updateObjectProperty(property, value)
UpdateObjectProperty(property, value) ==
    IF PropertyChanges(property, value)
    THEN /\ CanRecord
         /\ executeCommand([kind |-> "Modify", n |-> next_serial,
                            object |-> selected_object, property |-> property,
                            old_value |-> objs[selected_object][property],
                            new_value |-> value], Scene)
         /\ UNCHANGED <<next_ref, current_tool, drawing_state, dragging_state>>
    ELSE UNCHANGED vars

\* executeCommand(new Command()): a command whose forward effect throws.
ExecuteAbstractCommand ==
    /\ CanRecord
    /\ executeCommand([kind |-> "Command", n |-> next_serial], Scene)
    /\ UNCHANGED <<next_ref, current_tool, drawing_state, dragging_state>>

\* --------------------------------------------------------------- loading
\* The files loadPlotFromJSON can be given: files written by savePlotAsJSON,
\* whose objects are copies (id included) of objects of this session. The
\* file is an input: the plots of at most MaxFileObjects objects are tried.
PlotFiles ==
    UNION {{[i \in 1..k |-> objs[f[i]]] : f \in [1..k -> 1..(next_ref - 1)]}
              : k \in 0..MaxFileObjects}

\* loadPlotData(plot_data): the parsed objects are new objects, the list is
\* replaced and the selection cleared; the history is not touched.
LoadPlotData(objects) ==
    /\ next_ref + Len(objects) - 1 <= MaxObjects
    /\ objs' = [r \in Refs |->
                  IF r >= next_ref /\ r < next_ref + Len(objects)
                  THEN objects[r - next_ref + 1]
                  ELSE objs[r]]
    /\ plot_objects' = [i \in 1..Len(objects) |-> next_ref + i - 1]
    /\ next_ref' = next_ref + Len(objects)
    /\ selected_object' = NoObject
    /\ base' = Len(command_history) - 1
    /\ UNCHANGED <<current_tool, drawing_state, dragging_state,
                   command_history, current_command_index, next_serial>>

\* ------------------------------------------------------- picking colours
\* getObjectColor gives up on hashed colours after max_attempts collisions
\* (1000 in the source, scaled down).
max_attempts == 4

\* Object ids are strings; an id is modelled by the sequence of its
\* character codes, which is all generateUniqueColor reads of it.  The first
\* six ("aow", "apX", "aq9", "bPw", "bQX", "bR9") hash alike, "I" does not.
ColorIds ==
    { <<97, 111, 119>>, <<97, 112, 88>>, <<97, 113, 57>>,
      <<98, 80, 119>>, <<98, 81, 88>>, <<98, 82, 57>>, <<73>> }

\* hash = ((hash << 5) - hash + code) & 0xffffffff, once per character.  The
\* mask wraps to 32 signed bits; for ids of at most three characters and the
\* salts used here every intermediate value is below 2^31, where the mask
\* changes nothing, so it is not written.
RECURSIVE HashFrom(_, _)
HashFrom(hash, codes) ==
    IF codes = <<>> THEN hash
    ELSE HashFrom((hash * 32) - hash + Head(codes), Tail(codes))

enhance_contrast(value) ==
    IF value < 85 THEN (IF value - 30 < 0 THEN 0 ELSE value - 30)
    ELSE IF value > 170 THEN (IF value + 30 > 255 THEN 255 ELSE value + 30)
    ELSE IF value < 128 THEN 30 ELSE 225

generateUniqueColor(object_id, salt) ==
    LET hash == Abs(HashFrom(salt * 31, object_id))
    IN  Rgb(enhance_contrast((hash * 73 + salt * 17) % 256),
            enhance_contrast((hash * 151 + salt * 37) % 256),
            enhance_contrast((hash * 233 + salt * 59) % 256))

\* The fallback colour made from the counter value n.
SequentialColor(n) == Rgb(n % 256, (n \div 256) % 256, (n \div 65536) % 256)

isBackgroundColor(color) ==
    color \in {Rgb(0, 0, 0), Rgb(255, 255, 255), Rgb(240, 240, 240), Rgb(248, 249, 250)}

\* The retry loop of getObjectColor: the colour and the attempt count it
\* ends with, starting from a candidate and a count.
RECURSIVE RetryColor(_, _, _, _)
RetryColor(taken, object_id, color, collision_attempts) ==
    IF (color \in DOMAIN taken \/ isBackgroundColor(color))
            /\ collision_attempts < max_attempts
    THEN RetryColor(taken, object_id,
                    generateUniqueColor(object_id, collision_attempts + 1),
                    collision_attempts + 1)
    ELSE [color |-> color, collision_attempts |-> collision_attempts]

MapSet(m, k, v) == [x \in DOMAIN m \cup {k} |-> IF x = k THEN v ELSE m[x]]

\* The registry as one value.
Registry ==
    [id_color_map |-> id_color_map, object_color_map |-> object_color_map,
     next_color_id |-> next_color_id]

\* getObjectColor(object_id) on registry reg: the registry it leaves (the
\* same one for a cached id; otherwise the colour is entered in both maps).
RegistryAfter(reg, object_id) ==
    IF object_id \in DOMAIN reg.id_color_map
    THEN reg
    ELSE LET tried == RetryColor(reg.object_color_map, object_id,
                                 generateUniqueColor(object_id, 0), 0)
             fallback == tried.collision_attempts >= max_attempts
             color == IF fallback THEN SequentialColor(reg.next_color_id)
                      ELSE tried.color
         IN  [id_color_map |-> MapSet(reg.id_color_map, object_id, color),
              object_color_map |-> MapSet(reg.object_color_map, color, object_id),
              next_color_id |-> IF fallback THEN reg.next_color_id + 1
                                ELSE reg.next_color_id]

SetRegistry(reg) ==
    /\ id_color_map' = reg.id_color_map
    /\ object_color_map' = reg.object_color_map
    /\ next_color_id' = reg.next_color_id

\* getObjectColor(object_id) as a step; the colour it returns is
\* id_color_map'[object_id].
getObjectColor(object_id) == SetRegistry(RegistryAfter(Registry, object_id))

NextColor ==
    \E object_id \in ColorIds :
        getObjectColor(object_id)
            /\ UNCHANGED <<vars, picking_canvas, pointer_up, transformVars, drawVars>>

SpecColor == Init /\ [][NextColor]_<<vars, restVars>>

\* -------------------------------------------------------------- picking
\* The objects of the picking scenes: what renderPickingCanvas reads of an
\* object (type, id, z_index, place). The raster is a strip of pixels; an
\* object sits at pixel x of the strip, and y is 0.
PickIds == {<<73>>, <<97, 111, 119>>}

PickObjects ==
    [type : {"point", "area"}, id : PickIds, z_index : ZValues,
     x : Pixels, y : {0}]

Around(at, radius) == {p \in Pixels : Abs(p - at) <= radius}

\* drawPickingBBox: the inflated hit region (a point's disc of radius
\* size + 3, an area's rectangle).
PickingBBox(o) == Around(o.x, PickRadius + PickInflation)

\* drawPickingObject: the true shape (a point's disc, an area's rectangle).
PickingObject(o) ==
    IF o.type = "area" THEN Around(o.x, PickRadius + PickInflation)
    ELSE Around(o.x, PickRadius)

\* Array.prototype.sort by z_index, stable: s with r put after every element
\* whose z_index is not above r's.
RECURSIVE InsertByZ(_, _, _)
InsertByZ(O, s, r) ==
    IF s = <<>> THEN <<r>>
    ELSE IF O[Last(s)].z_index <= O[r].z_index THEN Append(s, r)
    ELSE Append(InsertByZ(O, SubSeq(s, 1, Len(s) - 1), r), Last(s))

RECURSIVE SortByZ(_, _)
SortByZ(O, s) ==
    IF s = <<>> THEN <<>>
    ELSE InsertByZ(O, SortByZ(O, SubSeq(s, 1, Len(s) - 1)), Last(s))

\* fill with fillStyle = color.
Fill(canvas, region, color) ==
    [p \in Pixels |-> IF p \in region THEN color ELSE canvas[p]]

\* The first pass of renderPickingCanvas over the objects `sorted` from
\* index i on: every object's bounding box, in its colour.
RECURSIVE FirstPass(_, _, _, _)
FirstPass(O, sorted, i, st) ==
    IF i > Len(sorted) THEN st
    ELSE LET o == O[sorted[i]]
             reg == RegistryAfter(st.registry, o.id)
         IN  FirstPass(O, sorted, i + 1,
                 [registry |-> reg,
                  canvas |-> Fill(st.canvas, PickingBBox(o), reg.id_color_map[o.id])])

\* The second pass: the true shape of every object that is not an area.
RECURSIVE SecondPass(_, _, _, _)
SecondPass(O, sorted, i, st) ==
    IF i > Len(sorted) THEN st
    ELSE LET o == O[sorted[i]]
             reg == RegistryAfter(st.registry, o.id)
         IN  SecondPass(O, sorted, i + 1,
                 IF o.type = "area" THEN st
                 ELSE [registry |-> reg,
                       canvas |-> Fill(st.canvas, PickingObject(o), reg.id_color_map[o.id])])

\* renderPickingCanvas(): the registry and the raster it leaves.
renderPickingCanvas(O, list, reg) ==
    LET sorted_objects == SortByZ(O, list)
        cleared == [registry |-> reg, canvas |-> ClearedCanvas]
    IN  SecondPass(O, sorted_objects, 1, FirstPass(O, sorted_objects, 1, cleared))

\* drawObject: the pixels of the visible canvas an object is painted on (a
\* point's disc, an area's rectangle).
drawObject(o) ==
    IF o.type = "area" THEN Around(o.x, PickRadius + PickInflation)
    ELSE Around(o.x, PickRadius)

\* The loop of redraw() over the objects `sorted` from index i on; the
\* visible canvas is followed as the object painted last at each pixel.
RECURSIVE Paint(_, _, _, _)
Paint(O, sorted, i, screen) ==
    IF i > Len(sorted) THEN screen
    ELSE Paint(O, sorted, i + 1,
               [p \in Pixels |->
                   IF p \in drawObject(O[sorted[i]]) THEN sorted[i]
                   ELSE screen[p]])

\* redraw(): the visible canvas it leaves (NoObject where only the axes
\* are).
Screen(O, list) ==
    Paint(O, SortByZ(O, list), 1, [p \in Pixels |-> NoObject])

\* getObjectIdFromPicking at a pixel: the id, or <<>> for null (no id of the
\* scenes is the empty string, which `!object_id` would also take for none).
getObjectIdFromPicking(p) ==
    LET color == picking_canvas[p]
    IN  IF isBackgroundColor(color) THEN <<>>
        ELSE IF color \notin DOMAIN object_color_map THEN <<>>
        ELSE object_color_map[color]

\* getObjectAt without `|| null` resolving to none: an id that no object of
\* the list carries gives the first object of the list.
getObjectAtAnyObject(p) ==
    LET object_id == getObjectIdFromPicking(p)
        index == FindIndexById(objs, plot_objects, object_id)
    IN  IF object_id = <<>> THEN NoObject
        ELSE IF index = -1
             THEN (IF plot_objects = <<>> THEN NoObject ELSE plot_objects[1])
             ELSE plot_objects[index + 1]

\* getObjectAt: the first object of plot_objects with the picked id, or null.
getObjectAt(p) ==
    LET object_id == getObjectIdFromPicking(p)
        index == FindIndexById(objs, plot_objects, object_id)
    IN  IF object_id = <<>> THEN NoObject
        ELSE IF index = -1 THEN NoObject ELSE plot_objects[index + 1]

\* The plot files of the picking scenes.
PickScenes ==
    UNION {[1..k -> PickObjects] : k \in 0..MaxObjects}

\* loadPlotData(plot_data) up to its deferred redraw: the list is replaced
\* and the selection cleared; the raster is repainted only when the callback
\* given to initializeMathLibrary runs (Redraw).
LoadScene(objects) ==
    /\ objs' = [r \in Refs |-> IF r <= Len(objects) THEN objects[r] ELSE Unallocated]
    /\ plot_objects' = [i \in 1..Len(objects) |-> i]
    /\ next_ref' = Len(objects) + 1
    /\ selected_object' = NoObject
    /\ UNCHANGED <<current_tool, drawing_state, dragging_state, command_history,
                   current_command_index, next_serial, base>>
    /\ UNCHANGED <<colorVars, picking_canvas, pointer_up, transformVars, drawVars>>

\* redraw(): its effect on the picking raster and the colour registry.
Redraw ==
    LET st == renderPickingCanvas(objs, plot_objects, Registry)
    IN  /\ picking_canvas' = st.canvas
        /\ SetRegistry(st.registry)
        /\ UNCHANGED <<vars, pointer_up, transformVars, drawVars>>

\* selectObjectAt(coords): the query at pixel p, then selectObject, which
\* ends with redraw().
SelectObjectAt(p) ==
    LET st == renderPickingCanvas(objs, plot_objects, Registry)
    IN  /\ selected_object' = getObjectAt(p)
        /\ picking_canvas' = st.canvas
        /\ SetRegistry(st.registry)
        /\ UNCHANGED <<objs, next_ref, plot_objects, current_tool,
                       drawing_state, dragging_state, command_history,
                       current_command_index, next_serial, base>>
        /\ UNCHANGED <<pointer_up, transformVars, drawVars>>

NextPick ==
    \/ \E objects \in PickScenes : LoadScene(objects)
    \/ Redraw
    \/ \E p \in Pixels : SelectObjectAt(p)

SpecPick == Init /\ [][NextPick]_<<vars, restVars>>

\* ------------------------------------------------- coordinate transforms
\* The settings the transforms are checked on: bounds with x_min < x_max
\* and y_min < y_max, a positive aspect ratio, a plot area of positive
\* width and height (the canvas size less the padding on both sides).
BoundValues == {-10, 0, 10}

PlotBounds ==
    {b \in [x_min : BoundValues, x_max : BoundValues,
            y_min : BoundValues, y_max : BoundValues] :
        b.x_min < b.x_max /\ b.y_min < b.y_max}

AspectRatios == {Fraction(1, 2), Num(1), Num(2)}

PlotSizes == 1..MaxPlotSize

\* Plot points and device points the transforms are applied to.
PlotPoints == {[x |-> Num(i), y |-> Num(j)] : i, j \in {-10, -3, 0, 10}}

DevicePoints ==
    {[x |-> Num(canvas_padding + i), y |-> Num(canvas_padding + j)] :
        i, j \in 0..MaxPlotSize}

\* The fit both transforms derive from the bounds, the aspect ratio and the
\* plot area: effective size and offsets.
Fit(bounds, aspect, width, height) ==
    LET plot_x_range == Num(bounds.x_max - bounds.x_min)
        plot_y_range == Num(bounds.y_max - bounds.y_min)
        canvas_aspect == Over(Num(width), Num(height))
        plot_aspect == Over(Times(plot_x_range, aspect), plot_y_range)
    IN  IF Greater(plot_aspect, canvas_aspect)
        THEN LET effective_height == Over(Num(width), plot_aspect)
             IN  [effective_width |-> Num(width),
                  effective_height |-> effective_height,
                  x_offset |-> Num(0),
                  y_offset |-> Over(Minus(Num(height), effective_height), Num(2))]
        ELSE LET effective_width == Times(Num(height), plot_aspect)
             IN  [effective_width |-> effective_width,
                  effective_height |-> Num(height),
                  x_offset |-> Over(Minus(Num(width), effective_width), Num(2)),
                  y_offset |-> Num(0)]

\* The fit with the height branch taken whatever the aspects are.
FitToFullHeight ==
    LET plot_x_range == Num(plot_bounds.x_max - plot_bounds.x_min)
        plot_y_range == Num(plot_bounds.y_max - plot_bounds.y_min)
        plot_aspect == Over(Times(plot_x_range, aspect_ratio), plot_y_range)
        effective_width == Times(Num(plot_height), plot_aspect)
    IN  [effective_width |-> effective_width,
         effective_height |-> Num(plot_height),
         x_offset |-> Over(Minus(Num(plot_width), effective_width), Num(2)),
         y_offset |-> Num(0)]

\* The fit as canvasToPlot derives it.
CanvasToPlotFit == Fit(plot_bounds, aspect_ratio, plot_width, plot_height)

\* The fit as plotToCanvas derives it.
PlotToCanvasFit == Fit(plot_bounds, aspect_ratio, plot_width, plot_height)

\* canvasToPlot with the offsets left out of the reverse map.
canvasToPlotWithoutOffsets(c) ==
    LET f == CanvasToPlotFit
        plot_x_range == Num(plot_bounds.x_max - plot_bounds.x_min)
        plot_y_range == Num(plot_bounds.y_max - plot_bounds.y_min)
        pad == Num(canvas_padding)
    IN  [x |-> Plus(Times(Over(Minus(c.x, pad), f.effective_width), plot_x_range),
                    Num(plot_bounds.x_min)),
         y |-> Minus(Num(plot_bounds.y_max),
                     Times(Over(Minus(c.y, pad), f.effective_height), plot_y_range))]

\* canvasToPlot(canvas_x, canvas_y)
canvasToPlot(c) ==
    LET f == CanvasToPlotFit
        plot_x_range == Num(plot_bounds.x_max - plot_bounds.x_min)
        plot_y_range == Num(plot_bounds.y_max - plot_bounds.y_min)
        pad == Num(canvas_padding)
    IN  [x |-> Plus(Times(Over(Minus(Minus(c.x, pad), f.x_offset), f.effective_width),
                          plot_x_range),
                    Num(plot_bounds.x_min)),
         y |-> Minus(Num(plot_bounds.y_max),
                     Times(Over(Minus(Minus(c.y, pad), f.y_offset), f.effective_height),
                           plot_y_range))]

\* plotToCanvas(plot_x, plot_y)
plotToCanvas(p) ==
    LET f == PlotToCanvasFit
        plot_x_range == Num(plot_bounds.x_max - plot_bounds.x_min)
        plot_y_range == Num(plot_bounds.y_max - plot_bounds.y_min)
        pad == Num(canvas_padding)
    IN  [x |-> Plus(Plus(Times(Over(Minus(p.x, Num(plot_bounds.x_min)), plot_x_range),
                               f.effective_width),
                         pad),
                    f.x_offset),
         y |-> Plus(Plus(pad, f.y_offset),
                    Times(Minus(Num(1),
                                Over(Minus(p.y, Num(plot_bounds.y_min)), plot_y_range)),
                          f.effective_height))]

\* getEffectivePlotArea(): left, right, top, bottom in device coordinates.
getEffectivePlotArea ==
    LET plot_x_range == Num(plot_bounds.x_max - plot_bounds.x_min)
        plot_y_range == Num(plot_bounds.y_max - plot_bounds.y_min)
        canvas_aspect == Over(Num(plot_width), Num(plot_height))
        plot_aspect == Over(Times(plot_x_range, aspect_ratio), plot_y_range)
        effective_height ==
            IF Greater(plot_aspect, canvas_aspect)
            THEN Num(plot_height)
            ELSE Over(Times(Num(plot_width), aspect_ratio), plot_aspect)
        effective_width ==
            IF Greater(plot_aspect, canvas_aspect)
            THEN Over(Times(Num(plot_height), plot_aspect), aspect_ratio)
            ELSE Num(plot_width)
        offset_x == Over(Minus(Num(plot_width), effective_width), Num(2))
        offset_y == Over(Minus(Num(plot_height), effective_height), Num(2))
        pad == Num(canvas_padding)
    IN  [left |-> Plus(pad, offset_x),
         right |-> Plus(Plus(pad, offset_x), effective_width),
         top |-> Plus(pad, offset_y),
         bottom |-> Plus(Plus(pad, offset_y), effective_height)]

\* The rectangle drawAxes() draws the axes on: plot_left, plot_right,
\* plot_top, plot_bottom.
drawAxes ==
    LET f == Fit(plot_bounds, aspect_ratio, plot_width, plot_height)
        pad == Num(canvas_padding)
    IN  [left |-> Plus(pad, f.x_offset),
         right |-> Plus(Plus(pad, f.x_offset), f.effective_width),
         top |-> Plus(pad, f.y_offset),
         bottom |-> Plus(Plus(pad, f.y_offset), f.effective_height)]

\* The editor at construction, on any of the settings.
InitTransform ==
    /\ InitEditor
    /\ plot_bounds \in PlotBounds
    /\ aspect_ratio \in AspectRatios
    /\ plot_width \in PlotSizes
    /\ plot_height \in PlotSizes
    /\ plot_coords = NoCoords
    /\ canvas_coords = NoCoords
    /\ InitDrawing

\* A plot point is converted for drawing.
ToCanvas(p) ==
    /\ plot_coords' = p
    /\ canvas_coords' = plotToCanvas(p)
    /\ UNCHANGED <<plot_bounds, aspect_ratio, plot_width, plot_height>>

\* A pointer position is converted to plot coordinates.
ToPlot(c) ==
    /\ canvas_coords' = c
    /\ plot_coords' = canvasToPlot(c)
    /\ UNCHANGED <<plot_bounds, aspect_ratio, plot_width, plot_height>>

NextTransform ==
    \/ \E p \in PlotPoints :
          ToCanvas(p) /\ UNCHANGED <<vars, colorVars, picking_canvas, pointer_up, drawVars>>
    \/ \E c \in DevicePoints :
          ToPlot(c) /\ UNCHANGED <<vars, colorVars, picking_canvas, pointer_up, drawVars>>

SpecTransform == InitTransform /\ [][NextTransform]_<<vars, restVars>>

\* ---------------------------------------------------------------- braces
\* Numbers a + b * sqrt(2) with fractions a and b: the 45deg brace scales
\* its outer radius by Math.SQRT2.
Surd(a, b) == [a |-> a, b |-> b]

Rational(a) == Surd(a, Num(0))

SPlus(u, v) == Surd(Plus(u.a, v.a), Plus(u.b, v.b))

SMinus(u, v) == Surd(Minus(u.a, v.a), Minus(u.b, v.b))

STimes(u, v) ==
    Surd(Plus(Times(u.a, v.a), Times(Num(2), Times(u.b, v.b))),
         Plus(Times(u.a, v.b), Times(u.b, v.a)))

\* Whether a + b * sqrt(2) is above zero.
SPositive(u) ==
    IF u.a.n >= 0 /\ u.b.n >= 0 THEN u.a.n > 0 \/ u.b.n > 0
    ELSE IF u.a.n <= 0 /\ u.b.n <= 0 THEN FALSE
    ELSE LET q == Over(u.a, u.b)
         IN  IF u.a.n > 0 THEN q.n * q.n > 2 * q.d * q.d
             ELSE q.n * q.n < 2 * q.d * q.d

SZero(u) == u.a.n = 0 /\ u.b.n = 0

Vec(x, y) == [x |-> x, y |-> y]

VMinus(p, q) == Vec(SMinus(p.x, q.x), SMinus(p.y, q.y))

Cross(u, v) == SMinus(STimes(u.x, v.y), STimes(u.y, v.x))

Dot(u, v) == SPlus(STimes(u.x, v.x), STimes(u.y, v.y))

Norm2(u) == Dot(u, u)

\* Math.sqrt of a square number.
Sqrt(n) == CHOOSE r \in 0..n : r * r = n

\* The length below which the traditional and the 45deg brace are skipped.
small_length == 20

\* Offsets from one brace endpoint to the other in device space; each has a
\* whole length: 0, 5, 10, 19, 20 (twice), 25, 30 (twice), 60 (three times).
BraceSpans ==
    { <<0, 0>>, <<3, 4>>, <<-8, 6>>, <<0, 19>>, <<-12, -16>>, <<20, 0>>,
      <<0, -25>>, <<24, -18>>, <<0, 30>>, <<-36, 48>>, <<60, 0>>, <<0, -60>> }

\* Values of brace.elevation || brace.width; 0 stands for none set.
Elevations == {0, 3, 15, 40}

Braces ==
    [style : {"smooth", "traditional", "45deg"},
     start_coords : {[x |-> 100, y |-> 80]},
     span : BraceSpans,
     elevation : Elevations,
     mirrored : BOOLEAN]

EndCoords(b) == [x |-> b.start_coords.x + b.span[1], y |-> b.start_coords.y + b.span[2]]

Length(S, E) == Sqrt((E.x - S.x) * (E.x - S.x) + (E.y - S.y) * (E.y - S.y))

\* drawSmoothBrace: the calls that reach the path. With length 0 the control
\* point is NaN, and quadraticCurveTo ignores a call with a NaN argument.
drawSmoothBrace(b) ==
    LET length == Length(b.start_coords, EndCoords(b))
    IN  <<[op |-> "moveTo"]>> \o
        (IF length = 0 THEN <<>>
         ELSE <<[op |-> "quadraticCurveTo"], [op |-> "quadraticCurveTo"]>>)

\* drawTraditionalBrace
drawTraditionalBrace(b) ==
    LET length == Length(b.start_coords, EndCoords(b))
    IN  IF length < small_length THEN <<>>
        ELSE <<[op |-> "moveTo"], [op |-> "quadraticCurveTo"], [op |-> "lineTo"],
               [op |-> "quadraticCurveTo"], [op |-> "quadraticCurveTo"],
               [op |-> "lineTo"], [op |-> "quadraticCurveTo"]>>

\* ccwForMinorArc(a0, a1), the angles given by the vectors u and v that
\* atan2 was taken of: the difference brought into (-pi, pi] is below zero
\* exactly when v is clockwise of u, u x v < 0.
ccwForMinorArc(u, v) == ~SPositive(Cross(u, v)) /\ ~SZero(Cross(u, v))

\* context.arc without the direction chosen by ccwForMinorArc.
ArcClockwise(centre, radius, from, to) ==
    [op |-> "arc", centre |-> centre, radius |-> radius, a0 |-> from, a1 |-> to,
     anticlockwise |-> FALSE]

\* context.arc(cx, cy, radius, a0, a1, anticlockwise), the angles kept as
\* the vectors from the centre they were measured on.
Arc(centre, radius, from, to) ==
    [op |-> "arc", centre |-> centre, radius |-> radius, a0 |-> from, a1 |-> to,
     anticlockwise |-> ccwForMinorArc(from, to)]

\* The inner radius of an elevation-limited or length-limited half.
InnerRadius(elevation, length) ==
    IF elevation # 0
    THEN (IF Greater(Num(elevation), Fraction(length, 6))
          THEN Fraction(length, 6) ELSE Num(elevation))
    ELSE Fraction(length, 6)

\* draw45DegBraceHalf(S, E, mirrorMultiplier, brace): what it appends to
\* the path.
draw45DegBraceHalf(S, E, mirrorMultiplier, b) ==
    LET dx == E.x - S.x
        dy == E.y - S.y
        length == Length(S, E)
        alongX == Fraction(dx, length)
        alongY == Fraction(dy, length)
        perpX == Fraction(-dy * mirrorMultiplier, length)
        perpY == Fraction(dx * mirrorMultiplier, length)
        innerR == Rational(InnerRadius(b.elevation, length))
        outerR == STimes(innerR, Surd(Num(0), Num(1)))
        half == Fraction(length, 2)
        twice == Times(Num(2), innerR.a)
        segLen == Rational(IF Greater(Minus(half, twice), Num(0))
                           THEN Minus(half, twice) ELSE Num(0))
        pt(s, p) ==
            Vec(SPlus(SPlus(Rational(Num(S.x)), STimes(Rational(alongX), s)),
                      STimes(Rational(perpX), p)),
                SPlus(SPlus(Rational(Num(S.y)), STimes(Rational(alongY), s)),
                      STimes(Rational(perpY), p)))
        Zero == Rational(Num(0))
        start == Vec(Rational(Num(S.x)), Rational(Num(S.y)))
        C1 == pt(innerR, innerR)
        P1 == pt(innerR, SMinus(innerR, outerR))
        P2 == pt(SPlus(innerR, segLen), SMinus(innerR, outerR))
        C2 == pt(SPlus(innerR, segLen), SMinus(Zero, outerR))
        PM == pt(Rational(half), SMinus(Zero, outerR))
    IN  IF length < small_length THEN <<>>
        ELSE <<[op |-> "moveTo", to |-> start],
               Arc(C1, outerR, VMinus(start, C1), VMinus(P1, C1)),
               [op |-> "lineTo", to |-> P2],
               Arc(C2, innerR, VMinus(P2, C2), VMinus(PM, C2))>>

\* draw45DegBrace: the two halves, the first with the mirror sign flipped.
draw45DegBrace(b) ==
    LET mm == IF b.mirrored THEN -1 ELSE 1
    IN  draw45DegBraceHalf(b.start_coords, EndCoords(b), -mm, b)
        \o draw45DegBraceHalf(EndCoords(b), b.start_coords, mm, b)

\* drawBrace(brace): the path that is stroked.
drawBrace(b) ==
    IF b.style = "traditional" THEN drawTraditionalBrace(b)
    ELSE IF b.style = "45deg" THEN draw45DegBrace(b)
    ELSE drawSmoothBrace(b)

\* The editor at construction with a brace about to be drawn.
InitBrace ==
    /\ InitEditor
    /\ InitSettings
    /\ brace \in Braces
    /\ path = <<>>

DrawBrace ==
    /\ path' = drawBrace(brace)
    /\ UNCHANGED brace

NextBrace ==
    DrawBrace /\ UNCHANGED <<vars, colorVars, picking_canvas, pointer_up, transformVars>>

SpecBrace == InitBrace /\ [][NextBrace]_<<vars, restVars>>

\* ---------------------------------------------------- history variable
\* pointer_up tells what the step that led to the present state was: "still"
\* for a pointer-up that ended a drag session with the object at the
\* coordinates of the snapshot, "moved" for one that ended it elsewhere,
\* "none" for every other step.
ReleaseOutcome ==
    IF ~IsDragging THEN "none"
    ELSE IF getObjectCoordinates(objs[dragging_state.dragged_object])
                = dragging_state.original_coords
         THEN "still" ELSE "moved"

Released == pointer_up' = ReleaseOutcome

NotReleased == pointer_up' = "none"

\* ------------------------------------------------------------ specification
\* The editing operations alone: everything but loading a plot file.
NextEdit ==
    \/ (\E pos \in Positions : HandleClick(pos)) /\ NotReleased /\ UNCHANGED restVars
    \/ (\E pos \in Positions, r \in Refs \cup {NoObject} : HandleMouseDown(pos, r)) /\ NotReleased /\ UNCHANGED restVars
    \/ (\E pos \in Positions : HandleMouseMove(pos)) /\ NotReleased /\ UNCHANGED restVars
    \/ (\E pos \in Positions : HandleMouseUp(pos)) /\ Released /\ UNCHANGED restVars
    \/ (\E r \in Refs : SelectObjectById(r)) /\ NotReleased /\ UNCHANGED restVars
    \/ (\E t \in Tools : SetTool(t)) /\ NotReleased /\ UNCHANGED restVars
    \/ (ClearPlot) /\ NotReleased /\ UNCHANGED restVars
    \/ (DeleteSelectedObject) /\ NotReleased /\ UNCHANGED restVars
    \/ (\E v \in ZValues : UpdateObjectProperty("z_index", v)) /\ NotReleased /\ UNCHANGED restVars
    \/ (Undo) /\ NotReleased /\ UNCHANGED restVars
    \/ (Redo) /\ NotReleased /\ UNCHANGED restVars

SpecEdit == Init /\ [][NextEdit]_vars

Next ==
    \/ (\E pos \in Positions : HandleClick(pos)) /\ NotReleased /\ UNCHANGED restVars
    \/ (\E pos \in Positions, r \in Refs \cup {NoObject} : HandleMouseDown(pos, r)) /\ NotReleased /\ UNCHANGED restVars
    \/ (\E pos \in Positions : HandleMouseMove(pos)) /\ NotReleased /\ UNCHANGED restVars
    \/ (\E pos \in Positions : HandleMouseUp(pos)) /\ Released /\ UNCHANGED restVars
    \/ (\E r \in Refs : SelectObjectById(r)) /\ NotReleased /\ UNCHANGED restVars
    \/ (\E t \in Tools : SetTool(t)) /\ NotReleased /\ UNCHANGED restVars
    \/ (ClearPlot) /\ NotReleased /\ UNCHANGED restVars
    \/ (DeleteSelectedObject) /\ NotReleased /\ UNCHANGED restVars
    \/ (\E v \in ZValues : UpdateObjectProperty("z_index", v)) /\ NotReleased /\ UNCHANGED restVars
    \/ (Undo) /\ NotReleased /\ UNCHANGED restVars
    \/ (Redo) /\ NotReleased /\ UNCHANGED restVars
    \/ (\E objects \in PlotFiles : LoadPlotData(objects)) /\ NotReleased /\ UNCHANGED restVars

Spec == Init /\ [][Next]_vars

\* The editing operations, and executeCommand given a command that throws.
NextThrow ==
    \/ NextEdit
    \/ (ExecuteAbstractCommand) /\ NotReleased /\ UNCHANGED restVars

SpecThrow == Init /\ [][NextThrow]_vars

\* ------------------------------------------- editing with the raster
\* The handlers that change the scene, each with the redraw() it ends with,
\* on scenes of points loaded from a plot file.
RebuildScenes ==
    {objects \in PickScenes :
        /\ \A i \in 1..Len(objects) :
              objects[i].type = "point" /\ objects[i].x \in Coords
        /\ \A i, j \in 1..Len(objects) :
              i # j => objects[i].id # objects[j].id}

\* Commands are created while fewer than MaxRasterCommands have been.
CanRecordOnRaster == next_serial <= MaxRasterCommands

\* The pointer at pixel p of the strip.
StripPositions == {[x |-> p, y |-> 0] : p \in Pixels}

\* redraw() at the end of a handler: renderPickingCanvas on the scene the
\* handler leaves.
RedrawAfter ==
    LET st == renderPickingCanvas(objs', plot_objects', Registry)
    IN  /\ picking_canvas' = st.canvas
        /\ SetRegistry(st.registry)

\* No redraw() in the handler.
NoRedraw == UNCHANGED <<colorVars, picking_canvas>>

\* handleMouseDown with the select tool: the query at the pointer, then
\* selectObject (which redraws), then startDragging if an object was hit.
RasterMouseDown(pos) ==
    LET clicked == getObjectAt(pos.x)
    IN  /\ current_tool = "select"
        /\ selected_object' = clicked
        /\ IF clicked # NoObject
           THEN /\ dragging_state' = startDragging(clicked, pos)
                /\ base' = BaseAfterTraversal
           ELSE UNCHANGED <<dragging_state, base>>
        /\ UNCHANGED <<objs, next_ref, plot_objects, current_tool,
                       drawing_state, command_history, current_command_index,
                       next_serial>>
        /\ RedrawAfter

\* undo() runs the command's undo(), which redraws unless it is the undo of
\* an Add whose object is not in the list.
UndoRedraws ==
    /\ current_command_index >= 0
    /\ LET c == command_history[current_command_index + 1]
       IN  c.kind = "Add"
           => FindIndexById(objs, plot_objects, objs[c.object].id) # -1

\* redo() runs the command's execute(), which redraws unless it is the
\* execute of a Delete without an index.
RedoRedraws ==
    /\ current_command_index < Len(command_history) - 1
    /\ LET c == command_history[current_command_index + 2]
       IN  c.kind = "Delete" => c.object_index # -1

\* A plot file is loaded while no command refers to an object (the objects
\* of a loaded scene take the references from 1 on).
NextRebuild ==
    \/ (\E objects \in RebuildScenes : command_history = <<>> /\ ~IsDragging /\ LoadScene(objects))
    \/ Redraw
    \/ (\E pos \in StripPositions : RasterMouseDown(pos)) /\ NotReleased /\ UNCHANGED <<transformVars, drawVars>>
    \/ (\E pos \in StripPositions : HandleMouseMove(pos) /\ RedrawAfter) /\ NotReleased /\ UNCHANGED <<transformVars, drawVars>>
    \/ (\E pos \in StripPositions : (CanRecordOnRaster \/ ReleaseOutcome = "still") /\ HandleMouseUp(pos) /\ NoRedraw) /\ Released /\ UNCHANGED <<transformVars, drawVars>>
    \/ (CanRecordOnRaster /\ ClearPlot /\ RedrawAfter) /\ NotReleased /\ UNCHANGED <<transformVars, drawVars>>
    \/ (CanRecordOnRaster /\ DeleteSelectedObject /\ RedrawAfter) /\ NotReleased /\ UNCHANGED <<transformVars, drawVars>>
    \/ (\E v \in ZValues : CanRecordOnRaster /\ UpdateObjectProperty("z_index", v) /\ IF PropertyChanges("z_index", v) THEN RedrawAfter ELSE NoRedraw) /\ NotReleased /\ UNCHANGED <<transformVars, drawVars>>
    \/ (Undo /\ IF UndoRedraws THEN RedrawAfter ELSE NoRedraw) /\ NotReleased /\ UNCHANGED <<transformVars, drawVars>>
    \/ (Redo /\ IF RedoRedraws THEN RedrawAfter ELSE NoRedraw) /\ NotReleased /\ UNCHANGED <<transformVars, drawVars>>

SpecRebuild == Init /\ [][NextRebuild]_<<vars, restVars>>

\* ------------------------------------------------- one command, any scene
\* Lists of distinct objects.
ObjectLists ==
    UNION {{f \in [1..k -> Refs] :
               \A i, j \in 1..k : i # j => f[i] # f[j]} : k \in 0..MaxObjects}

\* Every object the scene or the command can refer to has been created, as
\* a point at the first position, with its own id.
CreatedObjects ==
    [r \in Refs |-> NewPoint(r, [x |-> 0, y |-> MaxCoord])]

\* The Add and Delete commands over these objects; a Delete may have been
\* constructed on any list, with its object in it or not.
ObjectCommands ==
    {[kind |-> "Add", n |-> 1, object |-> r] : r \in Refs}
    \cup {NewDelete([objs |-> CreatedObjects, list |-> l, sel |-> NoObject],
                     r, 1) : r \in Refs, l \in ObjectLists}

\* An editor whose history holds one command, done or undone, and whose
\* list is any list: the command's target need not be where the command
\* expects it.
InitCommand ==
    /\ objs = CreatedObjects
    /\ next_ref = MaxObjects + 1
    /\ plot_objects \in ObjectLists
    /\ selected_object \in Refs \cup {NoObject}
    /\ current_tool = "select"
    /\ drawing_state = [is_drawing |-> FALSE, start_point |-> NoCoords]
    /\ dragging_state = NoDrag
    /\ command_history \in {<<c>> : c \in ObjectCommands}
    /\ current_command_index \in {-1, 0}
    /\ next_serial = 2
    /\ base = 0
    /\ id_color_map = <<>>
    /\ object_color_map = <<>>
    /\ next_color_id = 1
    /\ picking_canvas = ClearedCanvas
    /\ pointer_up = "none"
    /\ InitSettings
    /\ InitDrawing

\* undo and redo, tried while the list is no longer than MaxObjects (an
\* effect applied to a scene it was not made for can lengthen the list at
\* every round).
NextCommand ==
    \/ (Len(plot_objects) <= MaxObjects /\ Undo) /\ NotReleased /\ UNCHANGED restVars
    \/ (Len(plot_objects) <= MaxObjects /\ Redo) /\ NotReleased /\ UNCHANGED restVars

SpecCommand == InitCommand /\ [][NextCommand]_vars

\* ------------------------------------------------------- the axes settings
\* What parseFloat makes of the text of an input field: a number, or NaN.
NaN == [nan |-> TRUE]

Parsed(v) == [nan |-> FALSE, value |-> v]

\* a < b on parsed numbers: false as soon as one of them is NaN.
LessThan(a, b) == ~a.nan /\ ~b.nan /\ a.value < b.value

\* a > 0 on a parsed fraction.
Positive(a) == ~a.nan /\ Greater(a.value, Num(0))

\* The values the bounds fields of the panel are given.
BoundInputs == {NaN} \cup {Parsed(v) : v \in BoundValues}

\* The values the aspect-ratio field is given, and the values a plot file
\* can carry for it.
AspectValues == AspectRatios \cup {Num(0), Num(-1)}

AspectInputs == {NaN} \cup {Parsed(a) : a \in AspectValues}

\* updateAxesFromUI(): the three assertions, then updatePlotBounds and
\* updateAxesProperties. A failed assertion throws before either is called.
UpdateAxesFromUI(x_min, x_max, y_min, y_max, aspect) ==
    /\ IF LessThan(x_min, x_max) /\ LessThan(y_min, y_max) /\ Positive(aspect)
       THEN /\ plot_bounds' = [x_min |-> x_min.value, x_max |-> x_max.value,
                               y_min |-> y_min.value, y_max |-> y_max.value]
            /\ aspect_ratio' = aspect.value
       ELSE UNCHANGED <<plot_bounds, aspect_ratio>>
    /\ UNCHANGED <<plot_width, plot_height, plot_coords, canvas_coords>>

\* The plot files JSON.parse can deliver: plot_bounds, axes_properties and
\* objects are each present or absent, and nothing constrains the numbers.
NoField == [absent |-> TRUE]

PlotData ==
    [plot_bounds : {NoField} \cup [x_min : BoundValues, x_max : BoundValues,
                                   y_min : BoundValues, y_max : BoundValues],
     axes_properties : {NoField} \cup [aspect_ratio : AspectValues],
     objects : {NoField} \cup PlotFiles]

\* loadPlotData(plot_data) of script.js: updatePlotBounds when the file has
\* bounds, updateAxesProperties when it has axes properties, and the
\* replacement of the object list when it has objects.
LoadPlotFile(plot_data) ==
    /\ plot_bounds' = IF plot_data.plot_bounds # NoField
                      THEN plot_data.plot_bounds ELSE plot_bounds
    /\ aspect_ratio' = IF plot_data.axes_properties # NoField
                       THEN plot_data.axes_properties.aspect_ratio
                       ELSE aspect_ratio
    /\ IF plot_data.objects # NoField
       THEN LoadPlotData(plot_data.objects)
       ELSE UNCHANGED vars
    /\ UNCHANGED <<plot_width, plot_height, plot_coords, canvas_coords>>

NextAxes ==
    \/ (\E x_min, x_max, y_min, y_max \in BoundInputs, aspect \in AspectInputs : UpdateAxesFromUI(x_min, x_max, y_min, y_max, aspect)) /\ UNCHANGED <<vars, colorVars, picking_canvas, pointer_up, drawVars>>
    \/ (\E plot_data \in PlotData : LoadPlotFile(plot_data)) /\ NotReleased /\ UNCHANGED <<colorVars, picking_canvas, drawVars>>

SpecAxes == Init /\ [][NextAxes]_<<vars, restVars>>

\* ------------------------------------------------- dragging any object
\* The objects a drag can take hold of: one of each type that has
\* coordinates, anywhere in the modelled part of the plane.
DragObjects ==
    [type : {"point", "text"}, id : {1}, x : Coords, y : Coords,
     z_index : {0}]
    \cup [type : {"line", "area", "brace"}, id : {1}, x1 : Coords,
          y1 : Coords, x2 : Coords, y2 : Coords, z_index : {0}]

\* The pointer anywhere in the modelled part of the plane.
DragPositions == [x : Coords, y : Coords]

\* The editor with one object in its list and an empty history, as after a
\* plot file with one object was loaded.
InitDrag ==
    /\ \E o \in DragObjects :
          objs = [r \in Refs |-> IF r = 1 THEN o ELSE Unallocated]
    /\ next_ref = 2
    /\ plot_objects = <<1>>
    /\ selected_object = NoObject
    /\ current_tool = "select"
    /\ drawing_state = [is_drawing |-> FALSE, start_point |-> NoCoords]
    /\ dragging_state = NoDrag
    /\ command_history = <<>>
    /\ current_command_index = -1
    /\ next_serial = 1
    /\ base = -1
    /\ id_color_map = <<>>
    /\ object_color_map = <<>>
    /\ next_color_id = 1
    /\ picking_canvas = ClearedCanvas
    /\ pointer_up = "none"
    /\ InitSettings
    /\ InitDrawing

\* The pointer events of a drag, and undo / redo between them.
NextDrag ==
    \/ (\E pos \in DragPositions, r \in Refs \cup {NoObject} : HandleMouseDown(pos, r)) /\ NotReleased /\ UNCHANGED restVars
    \/ (\E pos \in DragPositions : HandleMouseMove(pos)) /\ NotReleased /\ UNCHANGED restVars
    \/ (\E pos \in DragPositions : HandleMouseUp(pos)) /\ Released /\ UNCHANGED restVars
    \/ (Undo) /\ NotReleased /\ UNCHANGED restVars
    \/ (Redo) /\ NotReleased /\ UNCHANGED restVars

SpecDrag == InitDrag /\ [][NextDrag]_vars

\* ================================================================ properties
\* Steps that append a command: executeCommand, and the commit of a drag.
ExecuteStep ==
    /\ next_serial' = next_serial + 1
    /\ Last(command_history').kind # "Move"

UndoStep ==
    /\ command_history' = command_history
    /\ current_command_index' = current_command_index - 1

RedoStep ==
    /\ command_history' = command_history
    /\ current_command_index' = current_command_index + 1

\* C1: the cursor is always between -1 and the history length minus one.
C1_CursorInRange ==
    /\ current_command_index >= -1
    /\ current_command_index <= Len(command_history) - 1

\* C1 witness: a full history whose every command has been undone.
C1_Witness ==
    /\ Len(command_history) = max_history_size
    /\ current_command_index = -1
    /\ next_serial > max_history_size + 1

\* C3: the history never holds more than max_history_size commands; when a
\* push would exceed it, the oldest command is dropped and the cursor is
\* decremented, so that it designates the command just pushed.
C3_Eviction ==
    (next_serial' = next_serial + 1
        /\ Len(Slice0(command_history, current_command_index + 1))
               = max_history_size)
    => /\ command_history' =
            Append(Tail(Slice0(command_history, current_command_index + 1)),
                   Last(command_history'))
       /\ Last(command_history').n = next_serial
       /\ current_command_index' = (current_command_index + 1) - 1
       /\ command_history'[current_command_index' + 1] = Last(command_history')
       /\ Len(command_history') = max_history_size
       /\ current_command_index' = max_history_size - 1

C3_HistoryBounded ==
    /\ [](Len(command_history) <= max_history_size)
    /\ [][C3_Eviction]_vars

\* C3 witness: a full history from which a command has been evicted.
C3_Witness ==
    /\ Len(command_history) = max_history_size
    /\ command_history[1].n > 1
    /\ current_command_index = max_history_size - 1

\* C4: executeCommand drops every command after the cursor before it
\* appends: the new command is the last entry, the cursor designates it,
\* every other entry comes from at or below the old cursor, and a command
\* is created once only, so that a dropped command never comes back.
C4_Truncation ==
    ExecuteStep =>
        LET kept == Slice0(command_history, current_command_index + 1)
            c    == Last(command_history')
        IN  /\ c.n = next_serial
            /\ current_command_index' = Len(command_history') - 1
            /\ \/ command_history' = Append(kept, c)
               \/ command_history' = Tail(Append(kept, c))
            /\ \A i \in 1..Len(command_history) :
                   i > current_command_index + 1 =>
                       \A j \in 1..Len(command_history') :
                           command_history'[j].n # command_history[i].n

\* Commands in the history were created earlier, each once.
SerialsUsedOnce ==
    /\ \A i \in 1..Len(command_history) : command_history[i].n < next_serial
    /\ \A i, j \in 1..Len(command_history) :
           i < j => command_history[i].n < command_history[j].n

C4_NewCommandLast ==
    /\ []SerialsUsedOnce
    /\ [][C4_Truncation]_vars
    /\ [][command_history' # command_history
             => next_serial' = next_serial + 1]_vars
    /\ [][(current_command_index = Len(command_history) - 1
              /\ command_history' = command_history)
             => current_command_index' <= current_command_index]_vars

\* C4 witness: a command has just been executed over an undone one, which
\* is gone from the history.
C4_Witness ==
    /\ Len(command_history) = 2
    /\ current_command_index = 1
    /\ command_history[1].n = 1
    /\ command_history[2].n = 3
    /\ command_history[2].kind # "Move"

\* C5: a drag that moves an object from p to q and ends with a release
\* appends exactly one Move command, its old coordinates p (the object's
\* coordinates when the drag began) and its new coordinates q; undoing that
\* command puts the object back at p.
C5_DragStart ==
    (dragging_state'.is_dragging /\ dragging_state' # dragging_state)
    => /\ dragging_state'.dragged_object # NoObject
       /\ dragging_state'.original_coords =
              getObjectCoordinates(objs[dragging_state'.dragged_object])

C5_Release ==
    LET r == dragging_state.dragged_object
        p == dragging_state.original_coords
        q == getObjectCoordinates(objs[r])
        c == Last(command_history')
        kept == Slice0(command_history, current_command_index + 1)
    IN  (IsDragging /\ ~dragging_state'.is_dragging /\ p # q)
        => /\ \/ command_history' = Append(kept, c)
              \/ command_history' = Tail(Append(kept, c))
           /\ c.n = next_serial
           /\ c.kind = "Move" /\ c.object = r
           /\ c.old_coords = p /\ c.new_coords = q
           /\ getObjectCoordinates(objs'[r]) = q
           /\ getObjectCoordinates(UndoEffect(c, Scene').objs[r]) = p

C5_UndoOfMove ==
    LET c == command_history[current_command_index + 1]
    IN  (UndoStep /\ c.kind = "Move")
        => getObjectCoordinates(objs'[c.object]) = c.old_coords

C5_DragIsOneMove ==
    [][C5_DragStart /\ C5_Release /\ C5_UndoOfMove]_vars

\* C5 witness: a drag has been committed as a Move that really moved the
\* object, the Move has been undone, and the object is at its old place.
C5_Witness ==
    /\ ~IsDragging
    /\ current_command_index < Len(command_history) - 1
    /\ LET c == command_history[current_command_index + 2]
       IN  /\ c.kind = "Move"
           /\ c.old_coords # c.new_coords
           /\ getObjectCoordinates(objs[c.object]) = c.old_coords

\* C6: after any sequence of add, delete, clear, modify, drag, undo and
\* redo, the ids of the objects in plot_objects are pairwise distinct.
C6_DistinctIds ==
    \A i, j \in 1..Len(plot_objects) :
        i # j => objs[plot_objects[i]].id # objs[plot_objects[j]].id

\* C6 witness: two objects are in the list after a Delete has been undone.
C6_Witness ==
    /\ Len(plot_objects) = 2
    /\ current_command_index < Len(command_history) - 1
    /\ command_history[current_command_index + 2].kind = "Delete"

\* C7: selected_object is null or one of the objects in plot_objects.
C7_SelectionInList ==
    \/ selected_object = NoObject
    \/ \E i \in 1..Len(plot_objects) : plot_objects[i] = selected_object

\* C7 witness: the selected object has just been deleted from a list that
\* still holds another object, and nothing is selected.
C7_Witness ==
    /\ current_command_index >= 0
    /\ command_history[current_command_index + 1].kind = "Delete"
    /\ Len(plot_objects) = 1
    /\ selected_object = NoObject
    /\ plot_objects[1] # command_history[current_command_index + 1].object

\* C8: executing a Delete of X and then undoing it puts X back at the index
\* it had: the order of plot_objects is what it was before the Delete.
C8_DeleteUndoRestoresOrder ==
    [][(ExecuteStep /\ Last(command_history').kind = "Delete")
         => UndoEffect(Last(command_history'), Scene').list = plot_objects]_vars

\* C2: n commands executed through executeCommand and then undone n times
\* leave plot_objects as it was (membership, order, every field); n redos
\* then give the list that followed the n-th execute. Step by step: the
\* undo of a command just executed restores the list it was executed on,
\* and the redo of a command just undone restores the list it was undone
\* on, for the commands of a plain run (InSequence).
C2_UndoRestores ==
    ExecuteStep =>
        Snapshot(UndoEffect(Last(command_history'), Scene')) = Snapshot(Scene)

C2_RedoReproduces ==
    (UndoStep /\ ~IsDragging /\ InSequence(current_command_index))
    => Snapshot(Execute(command_history[current_command_index + 1], Scene'))
          = Snapshot(Scene)

C2_UndoRedoInverse ==
    [][C2_UndoRestores /\ C2_RedoReproduces]_vars

\* C9 (as stated): undoing a Delete or a Clear sets the selection to what
\* it was immediately before the command's forward effect, be that its
\* first execution or a redo, when that object is in the restored list.
C9_Forward(c) ==
    LET U == UndoEffect(c, Scene')
    IN  (/\ c.kind \in {"Delete", "Clear"}
         /\ selected_object # NoObject
         /\ \E i \in 1..Len(U.list) : U.list[i] = selected_object)
        => U.sel = selected_object

C9_SelectionBeforeForward ==
    [][/\ ExecuteStep => C9_Forward(Last(command_history'))
       /\ RedoStep => C9_Forward(command_history[current_command_index + 2])
      ]_vars

\* C9 (amended): undoing a Delete or a Clear sets the selection to what it
\* was when the command was created and first executed, on the first undo
\* and on every undo after a redo, whatever was selected before the redo.
RecordedSelection(c) ==
    IF c.kind = "Delete" THEN c.object ELSE c.saved_selection

C9_Created ==
    LET c == Last(command_history')
    IN  (ExecuteStep /\ c.kind \in {"Delete", "Clear"})
        => /\ RecordedSelection(c) = selected_object
           /\ UndoEffect(c, Scene').sel = selected_object

C9_Undone ==
    LET c == command_history[current_command_index + 1]
    IN  (UndoStep /\ c.kind \in {"Delete", "Clear"})
        => selected_object' = RecordedSelection(c)

C9_SelectionAtCreation ==
    [][C9_Created /\ C9_Undone]_vars

\* C9 witness: a Delete has been undone and its object is selected again,
\* next to another object that could have been selected in between.
C9_Witness ==
    /\ Len(plot_objects) = 2
    /\ current_command_index < Len(command_history) - 1
    /\ command_history[current_command_index + 2].kind = "Delete"
    /\ selected_object = command_history[current_command_index + 2].object

\* C10: the membership and the order of plot_objects change only in a
\* command's effect, run by executeCommand, undo or redo.
C10_ListChangesInCommands ==
    [][plot_objects' # plot_objects
         => (ExecuteStep \/ UndoStep \/ RedoStep)]_vars

\* C11: the picking-colour registry is a bijection: the two maps are
\* inverse to each other, so no two object ids hold the same colour, and no
\* assigned colour is one of the background sentinels.
C11_ColorBijection ==
    /\ \A id \in DOMAIN id_color_map :
          /\ id_color_map[id] \in DOMAIN object_color_map
          /\ object_color_map[id_color_map[id]] = id
          /\ ~isBackgroundColor(id_color_map[id])
    /\ \A color \in DOMAIN object_color_map :
          /\ object_color_map[color] \in DOMAIN id_color_map
          /\ id_color_map[object_color_map[color]] = color

\* The raster is the one a rebuild of the present scene paints.
RasterRebuilt ==
    picking_canvas = renderPickingCanvas(objs, plot_objects, Registry).canvas

\* C12: after a rebuild, where the picking footprints (inflated region or
\* true shape) of two live objects with different z_index both cover a
\* pixel that no third object covers, a query at the pixel returns the one
\* with the higher z_index.
C12_HigherZPicked ==
    RasterRebuilt =>
        \A i, j \in 1..Len(plot_objects), p \in Pixels :
            LET a == objs[plot_objects[i]]
                b == objs[plot_objects[j]]
            IN  (/\ a.id # b.id
                 /\ a.z_index > b.z_index
                 /\ p \in (PickingBBox(a) \cup PickingObject(a))
                 /\ p \in (PickingBBox(b) \cup PickingObject(b))
                 /\ \A k \in 1..Len(plot_objects) :
                        k \notin {i, j} => p \notin PickingBBox(objs[plot_objects[k]]))
                => getObjectAt(p) = plot_objects[i]

PointerUpInDrag == IsDragging /\ ~dragging_state'.is_dragging

\* A step that puts a new Move command at the end of the history.
MoveAppended ==
    /\ next_serial' = next_serial + 1
    /\ Last(command_history').kind = "Move"
    /\ Last(command_history').n = next_serial

C14_StillRelease ==
    LET r == dragging_state.dragged_object
    IN  (PointerUpInDrag
            /\ getObjectCoordinates(objs[r]) = dragging_state.original_coords)
        => /\ command_history' = command_history
           /\ current_command_index' = current_command_index
           /\ next_serial' = next_serial

C14_MoveOnlyIfMoved ==
    LET r == dragging_state.dragged_object
    IN  MoveAppended
        => /\ PointerUpInDrag
           /\ getObjectCoordinates(objs[r]) # dragging_state.original_coords

\* C14: a pointer-up that ends a drag with the object at the coordinates
\* of the pointer-down snapshot leaves the history, its redo branch and the
\* cursor as they were; a Move command is appended only by a pointer-up that
\* ends a drag with the object elsewhere.
C14_StillDragRecordsNothing ==
    [][C14_StillRelease /\ C14_MoveOnlyIfMoved]_vars

\* C14 witness: a drag has just ended with the object where it was at
\* pointer-down, and the history still has its redo branch.
C14_Witness ==
    /\ pointer_up = "still"
    /\ current_command_index < Len(command_history) - 1

\* C15: a pointer-up handled during a drag session leaves is_dragging false
\* and dragged_object, drag_start_mouse, drag_start_coords and
\* original_coords null, whether a Move was recorded or not.
C15_PointerUpEndsDrag ==
    pointer_up \in {"still", "moved"} =>
        /\ dragging_state.is_dragging = FALSE
        /\ dragging_state.dragged_object = NoObject
        /\ dragging_state.drag_start_mouse = NoCoords
        /\ dragging_state.drag_start_coords = NoCoords
        /\ dragging_state.original_coords = NoCoords

\* C15 witness: a drag has just ended and its Move is the last command.
C15_Witness ==
    /\ pointer_up = "moved"
    /\ dragging_state = NoDrag
    /\ command_history # <<>>
    /\ current_command_index = Len(command_history) - 1
    /\ Last(command_history).kind = "Move"

C16_NothingChanges ==
    UNCHANGED <<objs, plot_objects, selected_object, command_history,
                current_command_index>>

\* C16: undo() with the cursor at -1 and redo() with the cursor at the last
\* command change neither the object list, nor the selection, nor the
\* history, nor the cursor.
C16_NoOpAtEnds ==
    [][/\ (current_command_index = -1 /\ Undo) => C16_NothingChanges
       /\ (current_command_index = Len(command_history) - 1 /\ Redo)
              => C16_NothingChanges]_vars

\* C16 witness: every command of a full history has been undone, so the
\* cursor is at -1, while the list and the selection are not empty.
C16_Witness ==
    /\ Len(command_history) = max_history_size
    /\ current_command_index = -1
    /\ plot_objects # <<>>
    /\ selected_object # NoObject

\* C17: for all the bounds, aspect ratios and plot areas, converting a plot
\* point to the device and back gives the point, converting a device point
\* to the plot and back gives the device point, and the two transforms
\* derive the same effective size and offsets.
C17_RoundTrip ==
    plot_coords # NoCoords =>
        /\ CanvasToPlotFit = PlotToCanvasFit
        /\ canvasToPlot(plotToCanvas(plot_coords)) = plot_coords
        /\ plotToCanvas(canvasToPlot(canvas_coords)) = canvas_coords
        /\ canvasToPlot(canvas_coords) = plot_coords

\* C17 witness: a point has been converted under a fit with a vertical
\* offset, and its plot coordinates are not whole numbers.
C17_Witness ==
    /\ plot_coords # NoCoords
    /\ PlotToCanvasFit.y_offset.n # 0
    /\ plot_coords.x.d # 1
    /\ plot_coords.y.d # 1

\* The setting of the aspect-fitting example: bounds -10..10 on both axes
\* and aspect ratio 2.
C18_Setting ==
    /\ plot_bounds = [x_min |-> -10, x_max |-> 10, y_min |-> -10, y_max |-> 10]
    /\ aspect_ratio = Num(2)

\* The fit uses the full width and centres a smaller height.
C18_FullWidth ==
    LET f == PlotToCanvasFit
    IN  /\ f.effective_width = Num(plot_width)
        /\ f.x_offset = Num(0)
        /\ Greater(Num(plot_height), f.effective_height)
        /\ f.y_offset = Over(Minus(Num(plot_height), f.effective_height), Num(2))

\* C18 as stated: in the setting, every plot area wider than tall gets the
\* full width and a smaller, vertically centred height.
C18_EveryWideViewport ==
    (C18_Setting /\ plot_width > plot_height) => C18_FullWidth

\* C18, amended: in the setting, a plot area wider than tall and less than
\* twice as wide as tall gets the full width and a smaller, vertically
\* centred height; one at least twice as wide as tall gets the full height
\* and a horizontally centred width of twice the height.
C18_WideViewportBelowTwice ==
    C18_Setting =>
        /\ (plot_height < plot_width /\ plot_width < 2 * plot_height) => C18_FullWidth
        /\ plot_width >= 2 * plot_height =>
              LET f == PlotToCanvasFit
              IN  /\ f.effective_height = Num(plot_height)
                  /\ f.y_offset = Num(0)
                  /\ f.effective_width = Num(2 * plot_height)
                  /\ f.x_offset = Over(Num(plot_width - 2 * plot_height), Num(2))

\* C18 witness: a point has been converted in the setting on a plot area
\* wider than tall and less than twice as wide.
C18_Witness ==
    /\ C18_Setting
    /\ plot_height < plot_width /\ plot_width < 2 * plot_height
    /\ canvas_coords # NoCoords
    /\ canvas_coords = plotToCanvas(plot_coords)

\* The path strokes nothing: it holds no segment.
NothingDrawn == \A i \in 1..Len(path) : path[i].op = "moveTo"

\* C19: a brace of any of the three styles whose endpoints are less than
\* the small length apart in device space, distance 0 included, is drawn as
\* nothing.
C19_ShortBraceDrawsNothing ==
    Length(brace.start_coords, EndCoords(brace)) < small_length => NothingDrawn

TangentAtStart(arc) ==
    IF arc.anticlockwise
    THEN Vec(arc.a0.y, SMinus(Rational(Num(0)), arc.a0.x))
    ELSE Vec(SMinus(Rational(Num(0)), arc.a0.y), arc.a0.x)

TangentAtEnd(arc) ==
    IF arc.anticlockwise
    THEN Vec(arc.a1.y, SMinus(Rational(Num(0)), arc.a1.x))
    ELSE Vec(SMinus(Rational(Num(0)), arc.a1.y), arc.a1.x)

\* The vector w from the centre of the arc ends on the arc.
OnArc(arc, w) == SZero(SMinus(Norm2(w), STimes(arc.radius, arc.radius)))

ArcStart(arc) == Vec(SPlus(arc.centre.x, arc.a0.x), SPlus(arc.centre.y, arc.a0.y))

ArcEnd(arc) == Vec(SPlus(arc.centre.x, arc.a1.x), SPlus(arc.centre.y, arc.a1.y))

SameDirection(u, v) == SZero(Cross(u, v)) /\ SPositive(Dot(u, v))

\* The half of the path that starts after `before` elements: outer arc,
\* straight segment, inner arc.
C20_HalfContinuous(before) ==
    LET outer == path[before + 2]
        line == path[before + 3]
        inner == path[before + 4]
        segment == VMinus(line.to, ArcEnd(outer))
    IN  /\ outer.op = "arc" /\ line.op = "lineTo" /\ inner.op = "arc"
        /\ outer.radius = STimes(inner.radius, Surd(Num(0), Num(1)))
        /\ OnArc(outer, outer.a0) /\ OnArc(outer, outer.a1)
        /\ OnArc(inner, inner.a0) /\ OnArc(inner, inner.a1)
        /\ ArcStart(outer) = path[before + 1].to
        /\ ArcStart(inner) = line.to
        /\ SameDirection(TangentAtEnd(outer), segment)
        /\ SameDirection(segment, TangentAtStart(inner))

\* C20: in each half of a drawn 45deg brace the outer arc ends in the
\* direction of the straight segment and the inner arc starts in it, the
\* outer radius being the inner radius times sqrt(2), for every elevation
\* and endpoint separation.
C20_TangentContinuity ==
    (brace # NoCoords /\ brace.style = "45deg" /\ path # <<>>) =>
        /\ Len(path) = 8
        /\ C20_HalfContinuous(0)
        /\ C20_HalfContinuous(4)

\* C20 witness: a mirrored 45deg brace between endpoints off the axes, its
\* inner radius set by the elevation, has been drawn.
C20_Witness ==
    /\ brace # NoCoords
    /\ brace.style = "45deg"
    /\ brace.mirrored
    /\ brace.span[1] # 0 /\ brace.span[2] # 0
    /\ Len(path) = 8
    /\ path[4].radius = Rational(Num(brace.elevation))

\* The step committed a drag as executeCommand would have recorded the same
\* command, and left every object and the list alone.
C21_CommitStep ==
    LET c == Last(command_history')
        H == HistoryAfterExecute(command_history, current_command_index, c)
    IN  (PointerUpInDrag /\ MoveAppended)
        => /\ command_history' = H.history
           /\ current_command_index' = H.index
           /\ objs' = objs
           /\ plot_objects' = plot_objects
           /\ getObjectCoordinates(objs'[c.object]) = c.new_coords
           /\ Execute(c, Scene') = Scene'

\* C21: the commit of a drag truncates the redo branch, appends, advances
\* the cursor and evicts exactly as executeCommand does for the same command
\* and the same history, and it changes no object: the dragged object keeps
\* the coordinates the last pointer-move gave it, which are the command's
\* new_coords.
C21_CommitIsBookkeepingOnly == [][C21_CommitStep]_vars

\* C21 witness: a drag was committed on a history that had a redo branch,
\* which the commit replaced by the Move.
C21_Witness ==
    /\ pointer_up = "moved"
    /\ Len(command_history) = 2
    /\ command_history[1].n = 1
    /\ command_history[2].n = 3
    /\ command_history[2].kind = "Move"
    /\ current_command_index = 1

\* C21 witness of the eviction: the commit pushed the oldest command out.
C21_EvictionWitness ==
    /\ pointer_up = "moved"
    /\ Len(command_history) = max_history_size
    /\ command_history[1].n > 1
    /\ Last(command_history).kind = "Move"

\* The command under the cursor, which undo() undoes, and the command after
\* it, which redo() executes.
CommandToUndo == command_history[current_command_index + 1]

CommandToRedo == command_history[current_command_index + 2]

C22_AddUndoOfAbsent ==
    (/\ Undo
     /\ current_command_index >= 0
     /\ CommandToUndo.kind = "Add"
     /\ FindIndexById(objs, plot_objects, objs[CommandToUndo.object].id) = -1)
    => plot_objects' = plot_objects

C22_DeleteExecuteOfAbsent ==
    (/\ Redo
     /\ current_command_index < Len(command_history) - 1
     /\ CommandToRedo.kind = "Delete"
     /\ CommandToRedo.object_index = -1)
    => plot_objects' = plot_objects

C22_DeleteUndoOfAbsent ==
    (/\ Undo
     /\ current_command_index >= 0
     /\ CommandToUndo.kind = "Delete"
     /\ CommandToUndo.object_index = -1)
    => plot_objects' = plot_objects

C22_GuardedEffectsAreNoOps ==
    [][C22_AddUndoOfAbsent /\ C22_DeleteExecuteOfAbsent]_vars

\* A getObjectColor call that went to the fallback took a colour that no id
\* held and that is no background colour, and left every entry of
\* object_color_map as it was.
C23_FallbackStep ==
    LET color == SequentialColor(next_color_id)
    IN  next_color_id' = next_color_id + 1
        => /\ color \notin DOMAIN object_color_map
           /\ ~isBackgroundColor(color)
           /\ \A c \in DOMAIN object_color_map :
                  object_color_map'[c] = object_color_map[c]

\* C23: when the retry loop of getObjectColor reaches its ceiling, the colour
\* of generateSequentialColor is held by no other id and is no background
\* colour, so that the fallback overwrites no entry of object_color_map.
C23_FallbackIsFresh == [][C23_FallbackStep]_colorVars

\* Every id keeps the colour it holds.
C24_IdKeepsColor ==
    \A id \in DOMAIN id_color_map :
        /\ id \in DOMAIN id_color_map'
        /\ id_color_map'[id] = id_color_map[id]

\* Every colour that resolves to the id holding it keeps resolving to it,
\* and is given to no other id.
C24_ColorKeepsId ==
    \A id \in DOMAIN id_color_map :
        object_color_map[id_color_map[id]] = id
        => /\ object_color_map'[id_color_map[id]] = id
           /\ \A other \in DOMAIN id_color_map' :
                  id_color_map'[other] = id_color_map[id] => other = id

\* C24: once getObjectColor has given an id a colour, every later call for
\* the id returns that colour, object_color_map keeps mapping the colour to
\* the id, and the colour is given to no other id.
C24_AssignmentIsStable == [][C24_IdKeepsColor /\ C24_ColorKeepsId]_colorVars

\* The id -> colour half alone is stable.
C24_CachedColorIsStable == [][C24_IdKeepsColor]_colorVars

\* C25: the picking raster is rebuilt after every change of the scene and
\* before the next query: in every state in which the next pointer event
\* can query it, the raster is what renderPickingCanvas paints for the
\* present object list, coordinates and z_index values.
C25_QueriesSeeCurrentScene ==
    picking_canvas = renderPickingCanvas(objs, plot_objects, Registry).canvas

\* The steps of the commands, of undo and redo and of the drag leave the
\* raster rebuilt when they have changed an object or the list.
C25_HandlersRebuild ==
    [][(/\ <<objs, plot_objects>>' # <<objs, plot_objects>>
        /\ ~(\E objects \in RebuildScenes : LoadScene(objects)))
       => RasterRebuilt']_<<vars, restVars>>

\* The objects of the list have ids of their own.
DistinctIds ==
    \A i, j \in 1..Len(plot_objects) :
        i # j => objs[plot_objects[i]].id # objs[plot_objects[j]].id

\* Pixels that the shapes of two objects of the list both cover.
Overlaps ==
    {p \in Pixels :
        \E i, j \in 1..Len(plot_objects) :
            /\ i # j
            /\ p \in drawObject(objs[plot_objects[i]])
            /\ p \in drawObject(objs[plot_objects[j]])}

\* C26: after a redraw of objects with ids of their own, the object picked
\* at a pixel where the shapes of two objects overlap is the one painted
\* last there on the visible canvas: the one with the higher z_index, and
\* for equal z_index the one later in plot_objects.
C26_PickedIsOnTop ==
    (RasterRebuilt /\ DistinctIds)
    => \A p \in Overlaps : getObjectAt(p) = Screen(objs, plot_objects)[p]

\* The same for the scenes without areas.
C26_PointOnTopIsPicked ==
    (/\ RasterRebuilt
     /\ DistinctIds
     /\ \A i \in 1..Len(plot_objects) : objs[plot_objects[i]].type = "point")
    => \A p \in Overlaps : getObjectAt(p) = Screen(objs, plot_objects)[p]

\* Two points of equal z_index at one pixel, each with its own id, after a
\* redraw.
C26_TieWitness ==
    /\ RasterRebuilt
    /\ DistinctIds
    /\ Len(plot_objects) = 2
    /\ objs[plot_objects[1]].type = "point"
    /\ objs[plot_objects[2]].type = "point"
    /\ objs[plot_objects[1]].z_index = objs[plot_objects[2]].z_index
    /\ objs[plot_objects[1]].x = objs[plot_objects[2]].x
    /\ getObjectAt(objs[plot_objects[1]].x) = plot_objects[2]

\* clearPlot(): the new Clear command holds the list as it was, and the
\* list and the selection are emptied.
C27_ClearIssued ==
    (next_serial' = next_serial + 1 /\ Last(command_history').kind = "Clear")
    => /\ Last(command_history').saved_objects = plot_objects
       /\ Last(command_history').n = next_serial
       /\ plot_objects' = <<>>
       /\ selected_object' = NoObject

\* undo() of a Clear puts the saved list back.
C27_ClearUndone ==
    (Undo /\ current_command_index >= 0 /\ CommandToUndo.kind = "Clear")
    => plot_objects' = CommandToUndo.saved_objects

\* redo() of a Clear empties the list and the selection.
C27_ClearRedone ==
    (/\ Redo
     /\ current_command_index < Len(command_history) - 1
     /\ CommandToRedo.kind = "Clear")
    => /\ plot_objects' = <<>>
       /\ selected_object' = NoObject

\* A command in the history is never altered: the commands that stay in
\* the history keep their fields.
C27_CommandsKept ==
    \A i \in 1..Len(command_history), j \in 1..Len(command_history') :
        command_history'[j].n = command_history[i].n
        => command_history'[j] = command_history[i]

\* C27: undo of a Clear restores plot_objects to the objects, in the same
\* order, that were in it when the Clear was issued; execute and redo of a
\* Clear leave the list empty and nothing selected.
C27_ClearRoundTrip ==
    [][/\ C27_ClearIssued
       /\ C27_ClearUndone
       /\ C27_ClearRedone
       /\ C27_CommandsKept]_vars

\* C27 witness: a Clear of a list of two objects has just been undone, and
\* the two objects are back in their order.
C27_Witness ==
    /\ current_command_index < Len(command_history) - 1
    /\ CommandToRedo.kind = "Clear"
    /\ Len(CommandToRedo.saved_objects) = 2
    /\ plot_objects = CommandToRedo.saved_objects

\* A step that puts a new Modify command at the end of the history.
ModifyAppended ==
    /\ next_serial' = next_serial + 1
    /\ Last(command_history').kind = "Modify"
    /\ Last(command_history').n = next_serial

\* An edit of the selected object's z_index to the value it has, or with
\* nothing selected, changes neither the history nor the cursor.
C28_SameValueStep ==
    \A v \in ZValues :
        (UpdateObjectProperty("z_index", v) /\ ~PropertyChanges("z_index", v))
        => UNCHANGED <<command_history, current_command_index, next_serial>>

\* A Modify is appended only for the selected object and a value that
\* differs from the one it has; the step records it as executeCommand
\* records one command, and gives the object the new value.
C28_ModifyStep ==
    LET c == Last(command_history')
        H == HistoryAfterExecute(command_history, current_command_index, c)
    IN  ModifyAppended
        => /\ selected_object # NoObject
           /\ c.object = selected_object
           /\ c.old_value = objs[c.object][c.property]
           /\ c.new_value # c.old_value
           /\ objs'[c.object][c.property] = c.new_value
           /\ command_history' = H.history
           /\ current_command_index' = H.index

\* undo() of a Modify gives the object the value it had.
C28_ModifyUndone ==
    (Undo /\ current_command_index >= 0 /\ CommandToUndo.kind = "Modify")
    => objs'[CommandToUndo.object][CommandToUndo.property]
           = CommandToUndo.old_value

C29_OnlyCoordinatesOfDragged ==
    LET r == dragging_state.dragged_object
    IN  /\ UNCHANGED <<command_history, current_command_index, next_serial,
                       plot_objects, selected_object, dragging_state,
                       current_tool, drawing_state>>
        /\ \A q \in Refs \ {r} : objs'[q] = objs[q]
        /\ setObjectCoordinates(objs'[r], getObjectCoordinates(objs[r]))
               = objs[r]

\* C29: a pointer-move during a drag session changes only coordinates of
\* the dragged object: the history, the cursor, the members and the order
\* of plot_objects and the fields of every other object stay as they are.
C29_DragMoveFrame ==
    [][(\E pos \in Positions : HandleMouseMove(pos))
       => C29_OnlyCoordinatesOfDragged]_vars

\* C29 witness: in the middle of a drag the dragged object is away from
\* where it was, another object is in the list, and the history has a redo
\* branch.
C29_Witness ==
    /\ IsDragging
    /\ getObjectCoordinates(objs[dragging_state.dragged_object])
           # dragging_state.original_coords
    /\ Len(plot_objects) = 2
    /\ current_command_index < Len(command_history) - 1

\* C30: when the forward effect of the command given to executeCommand
\* throws, the history is as it was before the call: the same commands, the
\* redo branch included, and the same cursor.
C30_ThrowKeepsHistory ==
    [][ExecuteAbstractCommand
       => UNCHANGED <<command_history, current_command_index>>]_vars

\* What the call does keep: the cursor, the commands up to the cursor, the
\* objects, the list and the selection.
C30_ThrowKeepsPrefix ==
    [][ExecuteAbstractCommand
       => /\ UNCHANGED <<current_command_index, objs, plot_objects,
                         selected_object>>
          /\ command_history' =
                 Slice0(command_history, current_command_index + 1)]_vars

\* ---------------------------------------------------------------------- C31
\* C31: in every reachable state the plot bounds satisfy x_min < x_max
\* and y_min < y_max and the aspect ratio is positive: whatever path
\* installed them (the axes panel or a loaded plot file), the settings in
\* force are valid.
C31_BoundsValid ==
    /\ plot_bounds.x_min < plot_bounds.x_max
    /\ plot_bounds.y_min < plot_bounds.y_max
    /\ Greater(aspect_ratio, Num(0))

\* ---------------------------------------------------------------------- C32
\* The object is in plot_objects.
Listed(r) == \E i \in 1..Len(plot_objects) : plot_objects[i] = r

\* C32, the premise: while a drag session is active the dragged object is
\* in plot_objects.
C32_DraggedObjectListed ==
    IsDragging => Listed(dragging_state.dragged_object)

\* C32: every Move command that the end of a drag appends to the history
\* targets an object that is in plot_objects at that moment, also when undo
\* or redo ran between pointer-down and pointer-up.
C32_MoveTargetsListedObject ==
    [][(PointerUpInDrag /\ MoveAppended)
          => Listed(Last(command_history').object)]_vars

\* ---------------------------------------------------------------------- C33
\* C33, the pointer-down clause: a step taken during a drag session that
\* leaves a session active leaves the session's object and its snapshot of
\* the original coordinates as they were.
C33_SnapshotKept ==
    [][(IsDragging /\ dragging_state'.is_dragging)
          => /\ dragging_state'.dragged_object = dragging_state.dragged_object
             /\ dragging_state'.original_coords = dragging_state.original_coords]_vars

\* C33: no drag displacement is lost from the history. A step that ends or
\* replaces a drag session whose object is away from the coordinates of the
\* session's snapshot appends a Move command for that object whose
\* old_coords are the snapshot: the coordinates the object had before the
\* drag began.
C33_NoDisplacementLost ==
    [][LET r == dragging_state.dragged_object
       IN  (/\ IsDragging
            /\ dragging_state' # dragging_state
            /\ getObjectCoordinates(objs[r]) # dragging_state.original_coords)
           => /\ MoveAppended
              /\ Last(command_history').object = r
              /\ Last(command_history').old_coords
                     = dragging_state.original_coords]_vars

\* ---------------------------------------------------------------------- C34
\* An undo of Add, or a redo of Delete, of an object other than the
\* selected one.
C34_RemovalOfAnother ==
    /\ selected_object # NoObject
    /\ \/ /\ UndoStep
          /\ CommandToUndo.kind = "Add"
          /\ CommandToUndo.object # selected_object
       \/ /\ RedoStep
          /\ CommandToRedo.kind = "Delete"
          /\ CommandToRedo.object # selected_object

\* C34: removing an object that is not the selected one leaves the
\* selection unchanged. When undo of Add(X) or redo of Delete(X) runs with
\* a live object Y other than X selected, Y is still selected afterwards.
C34_RemovalKeepsOtherSelection ==
    [][(C34_RemovalOfAnother /\ Listed(selected_object))
          => selected_object' = selected_object]_vars

\* ---------------------------------------------------------------------- C35
\* The coordinate bundle c shifted by (dx, dy), field by field.
Shifted(c, dx, dy) ==
    [f \in DOMAIN c |-> IF f \in {"x", "x1", "x2"} THEN c[f] + dx ELSE c[f] + dy]

\* The extent of an object that has two endpoints.
Extent(o) == [w |-> o.x2 - o.x1, h |-> o.y2 - o.y1]

C35_PointerMove(pos) ==
    LET r     == dragging_state.dragged_object
        snap  == dragging_state.original_coords
        start == dragging_state.drag_start_coords
    IN  HandleMouseMove(pos)
        => /\ getObjectCoordinates(objs'[r])
                  = Shifted(snap, pos.x - start.x, pos.y - start.y)
           /\ objs[r].type \in {"line", "area", "brace"}
                  => Extent(objs'[r]) = Extent(objs[r])
           /\ pos = start => getObjectCoordinates(objs'[r]) = snap

\* C35: a drag is a rigid translation computed from the pointer-down
\* snapshot, not accumulated. After every pointer-move the dragged object's
\* coordinates are the snapshot plus (pointer position - pointer-down
\* position); a line, area or brace keeps x2 - x1 and y2 - y1; and a
\* pointer-move back to the pointer-down position leaves the object at the
\* coordinates of the snapshot.
C35_DragIsRigidTranslation ==
    [][\A pos \in DragPositions : C35_PointerMove(pos)]_vars

\* C35 witness: an area with a width is being dragged and is away from its
\* snapshot, after the pointer passed through another position.
C35_Witness ==
    /\ IsDragging
    /\ LET o == objs[dragging_state.dragged_object]
       IN  /\ o.type = "area"
           /\ o.x1 # o.x2
           /\ getObjectCoordinates(o) # dragging_state.original_coords

\* ---------------------------------------------------------------------- C36
\* The device rectangle onto which plotToCanvas maps the plot bounds.
ImageOfBounds ==
    LET top_left == plotToCanvas([x |-> Num(plot_bounds.x_min),
                                  y |-> Num(plot_bounds.y_max)])
        bottom_right == plotToCanvas([x |-> Num(plot_bounds.x_max),
                                      y |-> Num(plot_bounds.y_min)])
    IN  [left |-> top_left.x, right |-> bottom_right.x,
         top |-> top_left.y, bottom |-> bottom_right.y]

\* C36: getEffectivePlotArea returns exactly the device rectangle onto
\* which plotToCanvas maps the plot bounds: left / top are
\* plotToCanvas(x_min, y_max) and right / bottom are
\* plotToCanvas(x_max, y_min), for every valid bounds, aspect ratio and
\* viewport.
C36_AreaIsImageOfBounds == getEffectivePlotArea = ImageOfBounds

\* C36, the rectangle of drawAxes: it is the rectangle onto which
\* plotToCanvas maps the plot bounds.
C36_AxesOnImageOfBounds == drawAxes = ImageOfBounds

====
